---- MODULE Spec2Model ----
(***************************************************************************)
(* A model of datool (src/datool.py): the process cache and its            *)
(* persistence across process invocations, the identity registry, the      *)
(* co-author trailer parser, roster loading and the attribution passes.    *)
(*                                                                         *)
(* Spec          the process cache: successive invocations of main() on    *)
(*               one repository, the pickle file between them, the review  *)
(*               service, signals and exit paths.                          *)
(* SpecRegistry  Author.register / register_with_aliases / get.            *)
(* SpecTrailer   Commit.get_co_authors on bounded message lines.           *)
(* SpecAttribution  _collect_line_stats, _collect_commit_stats and         *)
(*               _collect_github_stats on a bounded history.               *)
(* SpecReview    _collect_github_stats on bounded review requests.         *)
(* SpecRoster    StudentsConfig.from_dict on bounded roster files.         *)
(* SpecFallback  Repo._get_pr_commits: local lookup and service fallback.  *)
(***************************************************************************)
EXTENDS Integers, Sequences, FiniteSets, TLC

VARIABLES
    \* the environment: the repository and the review service
    head,        \* the commit HEAD points at
    svc,         \* review service: request number -> lifecycle state
    ghOk,        \* whether "gh pr view <n> --json commits" answers
    disk,        \* the persistent cache file (cache.pickle)
    \* module globals of one process
    cache,       \* _cache: key -> stdout text
    prCache,     \* _pr_cache: request number -> PullRequest
    dirty,       \* _cache_dirty
    \* the running process
    pc,          \* position in main()
    mode,        \* the command line: what main() was asked to do
    result,      \* what the passes of main() have read so far
    \* history variables (observation only)
    execs,       \* key -> successful executions in this process (saturating)
    ran,         \* keys whose command was executed in this process
    loadedKeys,  \* keys taken from the file by load_cache
    calls,       \* the Executable calls made by the last step
    lastList,    \* what the last get_pull_requests listed, reused and fetched
    exitLog,     \* how the last process ended and what its flushes did
    baseline,    \* the previous invocation, when it completed and flushed
    fromBaseline,\* this invocation started from that cache, nothing changed
    runs,        \* processes started so far
    \* the identity registry (SpecRegistry)
    registry,    \* Author._registry: (name, email) -> Author instance
    regLog,      \* the last registry call and what it returned
    regOps,      \* registry calls made so far
    \* the trailer parser (SpecTrailer)
    message_lines, \* Commit.message_lines of the commit being parsed
    parsed,      \* what get_co_authors made of it
    loadLog,     \* what load_cache found and did in this process
    \* attribution (SpecAttribution)
    include_patterns, \* files.include of the roster, or ["*"]
    exclude_patterns, \* files.exclude of the roster
    commits,     \* the history of the repository, oldest first
    alone_lines, \* author -> path -> lines written alone
    collab_lines,\* author -> path -> lines written with co-authors
    file_commits,\* path -> hashes of the commits blame names in it
    coauthors_cache, \* hash -> co-authors, shared by the two passes
    alone_commits,   \* author -> hashes of commits made alone
    collab_commits,  \* author -> hashes of commits made with co-authors
    apc,         \* how far the attribution passes have come
    araised,     \* the exception that ended them
    \* review attribution (SpecReview)
    pull_requests, \* what Repo.get_pull_requests returns
    github_stats,\* author -> GitHubStats
    gpc,         \* whether _collect_github_stats has run
    \* roster loading (SpecRoster)
    roster,      \* the parsed roster file: student and ignore entries
    config,      \* what StudentsConfig.from_dict made of it
    opc,         \* whether the roster has been loaded
    \* the commits of a review request (SpecFallback)
    commit_data, \* "commits" in the answer of gh pr view
    gitOk,       \* whether git commands succeed in the repository
    ghViewOk,    \* whether gh pr view answers
    pr_commits,  \* what _get_pr_commits returned
    fpc,         \* whether _get_pr_commits has run
    fraised,     \* the exception it left with
    \* a failing blame (SpecBlame)
    blame_stderr,\* what git blame wrote on its standard error
    blame_words, \* how many words that is
    blame_raised,\* the exception TrackedFile.get left with
    bpc,         \* whether git blame has exited
    \* the scan of a unified diff (SpecDiff)
    diff_sections, \* the diff: per file, the path and the lines of its hunk
    non_ws_files,\* the set the scan returned
    dpc          \* whether the scan has run

cvars == <<head, svc, ghOk, disk, cache, prCache, dirty, pc, mode, result,
           execs, ran, loadedKeys, calls, lastList, exitLog, baseline,
           fromBaseline, runs, loadLog>>
rvars == <<registry, regLog, regOps>>
tvars == <<message_lines, parsed>>
avars == <<include_patterns, exclude_patterns, commits, alone_lines, collab_lines,
           file_commits, coauthors_cache, alone_commits, collab_commits, apc,
           araised>>
gvars == <<pull_requests, github_stats, gpc>>
ovars == <<roster, config, opc>>
fvars == <<commit_data, gitOk, ghViewOk, pr_commits, fpc, fraised>>
bvars == <<blame_stderr, blame_words, blame_raised, bpc>>
dvars == <<diff_sections, non_ws_files, dpc>>
yvars == <<bvars, dvars>>
xvars == <<avars, gvars, ovars, fvars, yvars>>
vars == <<cvars, rvars, tvars, xvars>>

(***************************************************************************)
(* Bounds                                                                  *)
(***************************************************************************)
MaxRuns == 2        \* process invocations per behaviour
ExecCap == 2        \* the execution counter saturates here
MaxCommits == 2     \* commits in the history of the repository
MaxRequests == 2    \* review requests the service lists
MaxEntries == 2     \* entries of the roster file
MaxPrCommits == 2   \* commits of one review request
MaxLocal == 1       \* local commits next to a review request
MaxWords == 4       \* words git blame writes on its standard error
MaxSections == 2    \* files of a unified diff
MaxDiffLines == 2   \* lines of the hunk of one file

(***************************************************************************)
(* The repository: a linear local history c1 <- c2, and cx, a commit the   *)
(* review service knows that is not in the local object store.             *)
(***************************************************************************)
LocalHistory == <<"c1", "c2">>
LocalHashes == {LocalHistory[i] : i \in DOMAIN LocalHistory}
ForeignHash == "cx"
Hashes == LocalHashes \cup {ForeignHash}
Refs == Hashes \cup {"HEAD"}
Paths == {"a.py"}
Absent == "none"

Idx(h) == CHOOSE i \in DOMAIN LocalHistory : LocalHistory[i] = h
IsLocal(h, hd) == h \in LocalHashes /\ Idx(h) <= Idx(hd)
UpTo(h) == SubSeq(LocalHistory, 1, Idx(h))

(***************************************************************************)
(* Cache keys, as the callers build them.                                  *)
(***************************************************************************)
Key(c, r, p) == [cmd |-> c, ref |-> r, path |-> p]
RevParseKey(ref) == Key("rev-parse", ref, "")
CommitKey(h) == Key("commit", h, "")
LsTreeKey(ref) == Key("ls-tree", ref, "")
BlameKey(h, p) == Key("blame", h, p)
ShowDiffKey(h) == Key("show-diff", h, "")
LogFilesKey == Key("log-files", "", "")
ReadmeKey == Key("readme", "", "")

Keys ==
    {RevParseKey(r) : r \in Refs} \cup {CommitKey(h) : h \in Hashes}
    \cup {LsTreeKey(r) : r \in Refs}
    \cup {BlameKey(h, p) : h \in Hashes, p \in Paths}
    \cup {ShowDiffKey(h) : h \in Hashes} \cup {LogFilesKey, ReadmeKey}

EmptyCache == [k \in Keys |-> Absent]

(***************************************************************************)
(* git, as subprocess.run(check=True) sees it.  A text is named by the     *)
(* commit that determines it: the output of a command on a full hash       *)
(* never changes, the output of a command on HEAD and of git log changes   *)
(* when HEAD moves.  rev-parse answers a full hash without looking it up;  *)
(* the other commands fail on an object the repository does not hold.      *)
(***************************************************************************)
Resolve(ref, hd) == IF ref = "HEAD" THEN hd ELSE ref

GitRun(key, hd) ==
    CASE key.cmd = "rev-parse" -> [ok |-> TRUE, text |-> Resolve(key.ref, hd)]
      [] key.cmd = "log-files" -> [ok |-> TRUE, text |-> hd]
      [] OTHER ->
            IF IsLocal(Resolve(key.ref, hd), hd)
            THEN [ok |-> TRUE, text |-> Resolve(key.ref, hd)]
            ELSE [ok |-> FALSE, text |-> Absent]

(***************************************************************************)
(* Identity registry: class Author.  An Author instance is a record; id    *)
(* stands for the identity of the object, which __eq__ (name and email)    *)
(* does not see.                                                           *)
(***************************************************************************)
MaxRegOps == 2      \* register / register_with_aliases calls per behaviour
MaxAuthors == 2     \* distinct Author objects with the same fields

Names == {"A", "Bob"}
Emails == {"a@x.com", "b@y.com"}
AuthorIds == 1..MaxAuthors
\* an alias equal to the primary adds no pair, so the aliases are the others
Authors ==
    {a \in [id : AuthorIds, name : Names, email : Emails,
            other_names : SUBSET Names, other_emails : SUBSET Emails] :
        a.name \notin a.other_names /\ a.email \notin a.other_emails}
NoAuthor ==
    [id |-> 0, name |-> "", email |-> "", other_names |-> {}, other_emails |-> {}]
RegKeys == Names \X Emails
EmptyRegistry == [key \in RegKeys |-> NoAuthor]

\* Author.get: the instance under (name, email), or UnknownAuthorError with
\* the name, the email and where it was met.
AuthorGet(reg, name, email, contextType, contextDetail) ==
    IF <<name, email>> \notin RegKeys \/ reg[<<name, email>>] = NoAuthor
    THEN [raised |-> "UnknownAuthorError", author |-> NoAuthor,
          name |-> name, email |-> email,
          context_type |-> contextType, context_detail |-> contextDetail]
    ELSE [raised |-> "", author |-> reg[<<name, email>>],
          name |-> name, email |-> email,
          context_type |-> contextType, context_detail |-> contextDetail]

RegisterOverwrites(reg, author) ==
    [registry |-> [reg EXCEPT ![<<author.name, author.email>>] = author],
     ret |-> author]

\* Author.register
Register(reg, author) ==
    LET key == <<author.name, author.email>>
        reg1 == IF reg[key] = NoAuthor THEN [reg EXCEPT ![key] = author] ELSE reg
    IN [registry |-> reg1, ret |-> reg1[key]]

AllKeys(author) ==
    ({author.name} \cup author.other_names) \X ({author.email} \cup author.other_emails)

RegisterPrimaryOnly(reg, author) == Register(reg, author)

\* Author.register_with_aliases
RegisterWithAliases(reg, author) ==
    LET r == Register(reg, author)
    IN [registry |-> [key \in DOMAIN reg |->
                        IF key \in AllKeys(author) /\ r.registry[key] = NoAuthor
                        THEN r.ret
                        ELSE r.registry[key]],
        ret |-> r.ret]

NoRegLog == [op |-> "none", arg |-> NoAuthor, ret |-> NoAuthor,
             raised |-> "", before |-> EmptyRegistry]

DoRegister ==
    /\ regOps < MaxRegOps
    /\ \E a \in Authors :
         LET r == Register(registry, a) IN
         /\ registry' = r.registry
         /\ regLog' = [op |-> "register", arg |-> a, ret |-> r.ret,
                       raised |-> "", before |-> registry]
    /\ regOps' = regOps + 1
    /\ UNCHANGED <<cvars, tvars, xvars>>

DoRegisterWithAliases ==
    /\ regOps < MaxRegOps
    /\ \E a \in Authors :
         LET r == RegisterWithAliases(registry, a) IN
         /\ registry' = r.registry
         /\ regLog' = [op |-> "register_with_aliases", arg |-> a, ret |-> r.ret,
                       raised |-> "", before |-> registry]
    /\ regOps' = regOps + 1
    /\ UNCHANGED <<cvars, tvars, xvars>>

DoGet ==
    /\ \E n \in Names, e \in Emails :
         LET g == AuthorGet(registry, n, e, "commit", "c1") IN
         regLog' = [op |-> "get",
                    arg |-> [NoAuthor EXCEPT !.name = n, !.email = e],
                    ret |-> g.author, raised |-> g.raised, before |-> registry]
    /\ UNCHANGED <<registry, regOps, cvars, tvars, xvars>>

\* Author.clear_registry, between independent runs
DoClearRegistry ==
    /\ registry # EmptyRegistry
    /\ registry' = EmptyRegistry
    /\ regLog' = [NoRegLog EXCEPT !.op = "clear", !.before = registry]
    /\ UNCHANGED <<regOps, cvars, tvars, xvars>>

IdleRegistry == registry = EmptyRegistry /\ regLog = NoRegLog /\ regOps = 0

(***************************************************************************)
(* Commit.get_co_authors.  A message line is a sequence of tokens; a token *)
(* is a run of characters that the three patterns treat alike: a keyword,  *)
(* a colon, a blank, an angle bracket, an at sign, or a word.              *)
(***************************************************************************)
MaxLines == 2       \* lines of a commit message

\* re.IGNORECASE on the keyword spellings of this alphabet
Lower(t) ==
    CASE t \in {"Co-authored-by", "CO-AUTHORED-BY", "co-authored-by"} -> "co-authored-by"
      [] t \in {"co-authored", "Co-Authored"} -> "co-authored"
      [] OTHER -> t

MaxOf(S) == CHOOSE x \in S : \A y \in S : y <= x
MinOf(S) == CHOOSE x \in S : \A y \in S : x <= y

Blank(s, i, j) == \A k \in i..j : s[k] = " "

RECURSIVE Join(_)
Join(s) == IF s = <<>> THEN "" ELSE Head(s) \o Join(Tail(s))

\* str.strip()
RECURSIVE StripLeft(_)
StripLeft(s) == IF s # <<>> /\ Head(s) = " " THEN StripLeft(Tail(s)) ELSE s
RECURSIVE StripRight(_)
StripRight(s) ==
    IF s # <<>> /\ s[Len(s)] = " " THEN StripRight(SubSeq(s, 1, Len(s) - 1)) ELSE s
Strip(s) == StripRight(StripLeft(s))

KeepAngle(s) == s

\* email.strip("<>")
RECURSIVE StripAngle(_)
StripAngle(s) ==
    IF s # <<>> /\ Head(s) \in {"<", ">"} THEN StripAngle(Tail(s))
    ELSE IF s # <<>> /\ s[Len(s)] \in {"<", ">"}
         THEN StripAngle(SubSeq(s, 1, Len(s) - 1))
         ELSE s

NoMatch == [matched |-> FALSE, name |-> <<>>, email |-> <<>>]

\* (\S+@\S+)\s*$ on a stripped line: the last run without blanks, with an
\* at sign that has something on either side.  0 when there is none.
EmailStart(s) ==
    LET n == Len(s)
        e == MinOf({i \in 1..n : \A k \in i..n : s[k] # " "})
    IN IF n > 0 /\ \E k \in (e + 1)..(n - 1) : s[k] = "@" THEN e ELSE 0

\* ^Co-authored-by:\s*(.+?)\s*<([^>]+)>\s*$
PrecisePattern(s) ==
    LET n == Len(s)
        cands == {c \in (3..n) \X (3..n) \X (3..n) :
                     /\ c[1] <= c[2] /\ c[2] < c[3] /\ c[3] + 1 <= n - 1
                     /\ Blank(s, 3, c[1] - 1)
                     /\ Blank(s, c[2] + 1, c[3] - 1)
                     /\ s[c[3]] = "<"
                     /\ \A k \in (c[3] + 1)..(n - 1) : s[k] # ">"
                     /\ s[n] = ">"}
    IN IF n >= 2 /\ Lower(s[1]) = "co-authored-by" /\ s[2] = ":" /\ cands # {}
       THEN LET a == MaxOf({c[1] : c \in cands})
                b == MinOf({c[2] : c \in {d \in cands : d[1] = a}})
                p == MinOf({c[3] : c \in {d \in cands : d[1] = a /\ d[2] = b}})
            IN [matched |-> TRUE, name |-> SubSeq(s, a, b),
                email |-> SubSeq(s, p + 1, n - 1)]
       ELSE NoMatch

\* ^Co-authored-by:\s*(.+?)\s+(\S+@\S+)\s*$
NoBracketsPattern(s) ==
    LET n == Len(s)
        e == EmailStart(s)
        cands == {c \in (3..n) \X (3..n) :
                     /\ c[1] <= c[2] /\ c[2] + 1 <= e - 1
                     /\ Blank(s, 3, c[1] - 1)
                     /\ Blank(s, c[2] + 1, e - 1)}
    IN IF n >= 2 /\ Lower(s[1]) = "co-authored-by" /\ s[2] = ":" /\ e > 0 /\ cands # {}
       THEN LET a == MaxOf({c[1] : c \in cands})
                b == MinOf({c[2] : c \in {d \in cands : d[1] = a}})
            IN [matched |-> TRUE, name |-> SubSeq(s, a, b), email |-> SubSeq(s, e, n)]
       ELSE NoMatch

\* ^co-authored(?:-by)?[:\s]+(.+?)\s+(\S+@\S+)\s*$
LoosePattern(s) ==
    LET n == Len(s)
        e == EmailStart(s)
        cands == {c \in (3..n) \X (3..n) :
                     /\ c[1] <= c[2] /\ c[2] + 1 <= e - 1
                     /\ \A k \in 2..(c[1] - 1) : s[k] \in {":", " "}
                     /\ Blank(s, c[2] + 1, e - 1)}
    IN IF n >= 1 /\ Lower(s[1]) \in {"co-authored-by", "co-authored"} /\ e > 0 /\ cands # {}
       THEN LET a == MaxOf({c[1] : c \in cands})
                b == MinOf({c[2] : c \in {d \in cands : d[1] = a}})
            IN [matched |-> TRUE, name |-> SubSeq(s, a, b), email |-> SubSeq(s, e, n)]
       ELSE NoMatch

\* the patterns in order of precision, on the stripped line
MatchLine(line) ==
    LET stripped == Strip(line)
        m1 == PrecisePattern(stripped)
        m2 == NoBracketsPattern(stripped)
        m3 == LoosePattern(stripped)
        m == IF m1.matched THEN m1 ELSE IF m2.matched THEN m2 ELSE m3
    IN [matched |-> m.matched, name |-> Strip(m.name), email |-> Strip(m.email)]

NoParse == [done |-> FALSE, raised |-> "", co_authors |-> <<>>,
            name |-> "", email |-> "", context_type |-> "", context_detail |-> ""]

\* self.hash[:8]; a hash is a sequence of characters
HashPrefixLen == 8
HashPrefix(hash) ==
    SubSeq(hash, 1, IF Len(hash) < HashPrefixLen THEN Len(hash) ELSE HashPrefixLen)

ReturnPartial(g, co_authors) ==
    [NoParse EXCEPT !.done = TRUE, !.co_authors = co_authors]

\* Author.get raises inside the loop: the exception leaves get_co_authors
\* and the list built so far is lost
RaiseUnknown(g, co_authors) ==
    [done |-> TRUE, raised |-> g.raised, co_authors |-> <<>>,
     name |-> g.name, email |-> g.email,
     context_type |-> g.context_type,
     context_detail |-> g.context_detail]

\* the loop over message_lines
RECURSIVE CoAuthorLoop(_, _, _, _)
CoAuthorLoop(reg, lines, hash, co_authors) ==
    IF lines = <<>>
    THEN [NoParse EXCEPT !.done = TRUE, !.co_authors = co_authors]
    ELSE LET m == MatchLine(Head(lines)) IN
         IF m.name # <<>> /\ m.email # <<>>
         THEN LET g == AuthorGet(reg, Join(m.name), Join(StripAngle(m.email)),
                                 "co-author in commit", Join(HashPrefix(hash)))
              IN IF g.raised # ""
                 THEN RaiseUnknown(g, co_authors)
                 ELSE CoAuthorLoop(reg, Tail(lines), hash, Append(co_authors, g.author))
         ELSE CoAuthorLoop(reg, Tail(lines), hash, co_authors)

GetCoAuthors(reg, lines, hash) == CoAuthorLoop(reg, lines, hash, <<>>)

Keywords == {<<"Co-authored-by">>, <<"CO-AUTHORED-BY">>, <<"co-authored">>, <<"Signed-off-by">>}
ColonOpts == {<<>>, <<":">>}
BlankOpts == {<<>>, <<" ">>}
NameOpts == {<<"A">>, <<"Bob">>, <<>>}
EmailOpts == {<<"a", "@", "x.com">>, <<"<", "a", "@", "x.com", ">">>,
              <<"<", "a", "@", "x.com">>, <<"a">>}
Lines ==
    {k \o c \o b1 \o nm \o b2 \o em :
        k \in Keywords, c \in ColonOpts, b1 \in BlankOpts,
        nm \in NameOpts, b2 \in BlankOpts, em \in EmailOpts}
\* the lines before the last line of a message: a trailer of A, a trailer
\* of Bob, a line that is no trailer
LeadLines == {<<"Co-authored-by", ":", " ", "A", " ", "<", "a", "@", "x.com", ">">>,
              <<"Co-authored-by", ":", " ", "Bob", " ", "b", "@", "y.com">>,
              <<"Signed-off-by", ":", " ", "A", " ", "a", "@", "x.com">>}
Messages ==
    UNION {{lead \o <<last>> : lead \in [1..(n - 1) -> LeadLines], last \in Lines} :
              n \in 1..MaxLines}

\* the hash of the commit whose message is parsed
TrailerHash == <<"6", "1", "9", "6", "d", "4", "2", "3", "2", "9">>

AuthorA == [id |-> 1, name |-> "A", email |-> "a@x.com",
            other_names |-> {}, other_emails |-> {}]

\* a commit of the repository with this message
CommitMessage ==
    /\ message_lines = <<>>
    /\ \E msg \in Messages : message_lines' = msg
    /\ UNCHANGED <<parsed, cvars, rvars, xvars>>

GetCoAuthorsStep ==
    /\ message_lines # <<>>
    /\ ~parsed.done
    /\ parsed' = GetCoAuthors(registry, message_lines, TrailerHash)
    /\ UNCHANGED <<message_lines, cvars, rvars, xvars>>

(***************************************************************************)
(* Executable.__call__: the memory of a process is threaded through the    *)
(* calls of one step as a record m.                                        *)
(***************************************************************************)
Mem ==
    [cache |-> cache, prCache |-> prCache, dirty |-> dirty, execs |-> execs,
     ran |-> ran, calls |-> {}, lastList |-> lastList,
     ok |-> TRUE, out |-> Absent, err |-> ""]

Bump(n) == IF n < ExecCap THEN n + 1 ELSE n

CallRecord(m, key, executed, ok, out) ==
    [key |-> key, present |-> m.cache[key] # Absent, stored |-> m.cache[key],
     executed |-> executed, ok |-> ok, out |-> out]

CacheHitNever(c, key) == FALSE

CacheHit(c, key) == c[key] # Absent

DirtyNotSet == FALSE

DirtyAfterStore == TRUE

ExecutableCall(m, key, hd) ==
    IF CacheHit(m.cache, key)
    THEN [m EXCEPT !.ok = TRUE, !.out = m.cache[key],
                   !.calls = @ \cup {CallRecord(m, key, FALSE, TRUE, m.cache[key])}]
    ELSE LET r == GitRun(key, hd) IN
         IF r.ok
         THEN [m EXCEPT !.cache[key] = r.text,
                        !.dirty = (@ \/ DirtyAfterStore),
                        !.execs[key] = Bump(@),
                        !.ran = @ \cup {key},
                        !.ok = TRUE, !.out = r.text,
                        !.calls = @ \cup {CallRecord(m, key, TRUE, TRUE, r.text)}]
         ELSE [m EXCEPT !.ran = @ \cup {key},
                        !.ok = FALSE, !.out = Absent,
                        !.calls = @ \cup {CallRecord(m, key, TRUE, FALSE, Absent)}]

(***************************************************************************)
(* History data layer.  m.err names the exception a call leaves with.  A   *)
(* function of several statements is written as one operator per           *)
(* statement, each taking the memory the statement before it left.         *)
(***************************************************************************)
\* Commit.get, after git show
GetCommitShown(m2) ==
    IF ~m2.ok THEN [m2 EXCEPT !.err = "CalledProcessError"]
    ELSE [m2 EXCEPT !.err = ""]

\* Commit.get, after git rev-parse
GetCommitResolved(m1, hd) ==
    IF ~m1.ok THEN [m1 EXCEPT !.err = "CommitNotFoundError"]
    ELSE GetCommitShown(ExecutableCall(m1, CommitKey(m1.out), hd))

GetCommit(m, ref, hd) ==
    GetCommitResolved(ExecutableCall(m, RevParseKey(ref), hd), hd)

RECURSIVE GetCommits(_, _, _)
GetCommitsNext(m1, hs, hd) ==
    IF m1.err # "" THEN m1 ELSE GetCommits(m1, Tail(hs), hd)

GetCommits(m, hs, hd) ==
    IF hs = <<>> THEN [m EXCEPT !.err = ""]
    ELSE GetCommitsNext(GetCommit(m, Head(hs), hd), hs, hd)

TrackedFilePath == "a.py"

\* TrackedFile.get, after git blame: the commit of every distinct hash the
\* blame names.  out is the commit the blame was taken at.
TrackedFileGetBlamed(m2, hd) ==
    IF ~m2.ok THEN [m2 EXCEPT !.err = "FileNotFoundInRepoError"]
    ELSE [GetCommits(m2, UpTo(m2.out), hd) EXCEPT !.out = m2.out]

\* TrackedFile.get, after git rev-parse
TrackedFileGetResolved(m1, path, hd) ==
    IF ~m1.ok THEN [m1 EXCEPT !.err = "CommitNotFoundError"]
    ELSE TrackedFileGetBlamed(ExecutableCall(m1, BlameKey(m1.out, path), hd), hd)

TrackedFileGet(m, path, ref, hd) ==
    TrackedFileGetResolved(ExecutableCall(m, RevParseKey(ref), hd), path, hd)

\* TrackedFile.files, after git ls-tree.  out is <<the listing read, the
\* commit blamed at>>.
TrackedFileFilesListed(m1, hd) ==
    IF ~m1.ok THEN [m1 EXCEPT !.err = "CalledProcessError"]
    ELSE [TrackedFileGet(m1, TrackedFilePath, "HEAD", hd) EXCEPT !.out = <<m1.out, @>>]

\* TrackedFile.files, as _collect_line_stats calls it: commit = "HEAD"
TrackedFileFiles(m, hd) ==
    TrackedFileFilesListed(ExecutableCall(m, LsTreeKey("HEAD"), hd), hd)

\* Repo.get_commit_non_whitespace_files: a diff that cannot be had is absorbed.
GetCommitNonWhitespaceFiles(m, h, hd) ==
    [ExecutableCall(m, ShowDiffKey(h), hd) EXCEPT !.err = ""]

\* The loop of _collect_commit_stats over the commits of the log.
RECURSIVE CommitLoop(_, _, _)
CommitLoopCommit(m2, hs, hd) ==
    IF m2.err = "CalledProcessError" THEN m2 ELSE CommitLoop(m2, Tail(hs), hd)

CommitLoopDiff(m1, hs, hd) ==
    IF ~m1.ok THEN CommitLoop(m1, Tail(hs), hd)
    ELSE CommitLoopCommit(GetCommit(m1, Head(hs), hd), hs, hd)

CommitLoop(m, hs, hd) ==
    IF hs = <<>> THEN [m EXCEPT !.err = ""]
    ELSE CommitLoopDiff(GetCommitNonWhitespaceFiles(m, Head(hs), hd), hs, hd)

\* _collect_commit_stats, after Repo.get_all_commits.  out is the log read.
CollectCommitStatsLogged(m1, hd) ==
    IF ~m1.ok THEN [m1 EXCEPT !.err = "CalledProcessError"]
    ELSE [CommitLoop(m1, UpTo(m1.out), hd) EXCEPT !.out = m1.out]

CollectCommitStats(m, hd) ==
    CollectCommitStatsLogged(ExecutableCall(m, LogFilesKey, hd), hd)

(***************************************************************************)
(* Review data layer.                                                      *)
(***************************************************************************)
PRSeq == <<1>>
PRs == {PRSeq[i] : i \in DOMAIN PRSeq}
PRStates == {"OPEN", "CLOSED", "MERGED"}
NoPR == [state |-> "none", commits |-> "none"]
EmptyPRCache == [n \in PRs |-> NoPR]

\* The commit the service reports for a request: a commit of the request's
\* branch, which is not in the local repository.
PRCommitOid(n) == ForeignHash

\* Repo._get_pr_commits, after get_commit.  out says where the commit's
\* detail came from: "local", "service", or "none" when the commit list
\* could not be fetched.
GetPrCommitsLocal(m1) ==
    CASE m1.err = "" -> [m1 EXCEPT !.out = "local"]
      [] m1.err = "CalledProcessError" -> [m1 EXCEPT !.err = "", !.out = "service"]
      [] OTHER -> m1

\* Repo._get_pr_commits for a request of one commit
GetPrCommits(m, n, gok, hd) ==
    IF ~gok THEN [m EXCEPT !.err = "", !.out = "none"]
    ELSE GetPrCommitsLocal(GetCommit(m, PRCommitOid(n), hd))

CacheAnyPR(pr) == TRUE

\* "if not pr.is_open": the fetched requests that go into _pr_cache
CacheablePR(pr) == pr.state # "OPEN"

\* "if state != OPEN and (repo_key, pr_number) in _pr_cache"
ReuseCached(state, cached) == state # "OPEN" /\ cached # NoPR

\* The loop of get_pull_requests over the fetched requests: the record is
\* returned, and stored when it is not open.
FetchPrsStore(m1, n, pr) ==
    IF CacheablePR(pr)
    THEN [m1 EXCEPT !.lastList.got[n] = pr, !.lastList.fetched = @ \cup {n},
                    !.prCache[n] = pr, !.dirty = TRUE]
    ELSE [m1 EXCEPT !.lastList.got[n] = pr, !.lastList.fetched = @ \cup {n}]

\* Repo._fetch_pr_details and the loop, over the requests to fetch
RECURSIVE FetchPrs(_, _, _, _, _)
FetchPrsNext(m1, ns, sv, gok, hd) ==
    IF m1.err # "" THEN m1
    ELSE FetchPrs(FetchPrsStore(m1, Head(ns),
                                [state |-> sv[Head(ns)], commits |-> m1.out]),
                  Tail(ns), sv, gok, hd)

FetchPrs(m, ns, sv, gok, hd) ==
    IF ns = <<>> THEN [m EXCEPT !.err = ""]
    ELSE FetchPrsNext(GetPrCommits(m, Head(ns), gok, hd), ns, sv, gok, hd)

\* Repo.get_pull_requests, after gh pr list: reuse are the requests taken
\* from _pr_cache
GetPullRequestsListed(m, reuse, sv, gok, hd) ==
    FetchPrs([m EXCEPT !.lastList =
                 [listed |-> sv, reused |-> reuse, fetched |-> {},
                  got |-> [n \in PRs |-> IF n \in reuse THEN m.prCache[n] ELSE NoPR]]],
             SelectSeq(PRSeq, LAMBDA n : n \notin reuse), sv, gok, hd)

\* Repo.get_pull_requests
GetPullRequests(m, sv, gok, hd) ==
    GetPullRequestsListed(m, {n \in PRs : ReuseCached(sv[n], m.prCache[n])},
                          sv, gok, hd)

NoList == [listed |-> [n \in PRs |-> "none"], reused |-> {}, fetched |-> {},
           got |-> EmptyPRCache]

(***************************************************************************)
(* The persistent file, load_cache and save_cache.                         *)
(***************************************************************************)
File(kind, c, p) == [kind |-> kind, c |-> c, p |-> p]
NoFile == File("absent", EmptyCache, EmptyPRCache)
\* What may be found in place of a file this program wrote: a file of an
\* older version (a dict), a pickle of something else, bytes pickle rejects
\* with UnpicklingError, a truncated file (EOFError), a file that cannot be
\* opened (OSError), and bytes on which pickle.load raises something else
\* (ValueError, AttributeError, ImportError, ...).
DamagedKinds == {"other", "garbage", "truncated", "unreadable", "badvalue"}

\* What pickle.load (or open) raises on a file, "" when it returns.
UnpickleRaises(f) ==
    CASE f.kind = "garbage" -> "UnpicklingError"
      [] f.kind = "truncated" -> "EOFError"
      [] f.kind = "unreadable" -> "OSError"
      [] f.kind = "badvalue" -> "ValueError"
      [] OTHER -> ""

\* "except (pickle.PickleError, EOFError, OSError)"
LoadCacheCatches == {"UnpicklingError", "EOFError", "OSError"}

LoadCacheLoadsNothing(f) ==
    [cache |-> EmptyCache, prCache |-> EmptyPRCache, raised |-> ""]

\* load_cache on the memory of a fresh process: the caches after it and the
\* exception it leaves with ("" when it returns).
LoadCache(f) ==
    LET exc == UnpickleRaises(f) IN
    CASE f.kind = "absent" -> [cache |-> EmptyCache, prCache |-> EmptyPRCache, raised |-> ""]
      [] exc # "" /\ exc \in LoadCacheCatches ->
            [cache |-> EmptyCache, prCache |-> EmptyPRCache, raised |-> ""]
      [] exc # "" -> [cache |-> EmptyCache, prCache |-> EmptyPRCache, raised |-> exc]
      [] f.kind = "tuple" -> [cache |-> f.c, prCache |-> f.p, raised |-> ""]
      [] f.kind = "dict" -> [cache |-> f.c, prCache |-> EmptyPRCache, raised |-> ""]
      [] OTHER -> [cache |-> EmptyCache, prCache |-> EmptyPRCache, raised |-> ""]

\* How a write can go: it succeeds, open() fails, the write fails after
\* open() truncated the file, or the cache directory cannot be made
\* (get_cache_file_path is called outside the try).
WriteOutcomes == {"ok", "open_fails", "write_fails", "mkdir_fails"}

\* save_cache: the flag and the file after it, whether it wrote to the
\* file, and the exception it leaves with.
SaveCache(m, f, w) ==
    IF ~m.dirty
    THEN [dirty |-> FALSE, disk |-> f, wrote |-> FALSE, raised |-> "",
          was |-> FALSE, w |-> "skipped"]
    ELSE CASE w = "ok" ->
                [dirty |-> FALSE, disk |-> File("tuple", m.cache, m.prCache),
                 wrote |-> TRUE, raised |-> "", was |-> TRUE, w |-> w]
           [] w = "open_fails" ->
                [dirty |-> TRUE, disk |-> f, wrote |-> FALSE, raised |-> "",
                 was |-> TRUE, w |-> w]
           [] w = "write_fails" ->
                [dirty |-> TRUE, disk |-> File("truncated", EmptyCache, EmptyPRCache),
                 wrote |-> TRUE, raised |-> "", was |-> TRUE, w |-> w]
           [] OTHER ->
                [dirty |-> TRUE, disk |-> f, wrote |-> FALSE, raised |-> "OSError",
                 was |-> TRUE, w |-> w]

(***************************************************************************)
(* The process: main() from load_cache to the end of the process.          *)
(***************************************************************************)
Modes == {"analysis", "github", "readme", "clear"}
NoResult == [tree |-> Absent, blameAt |-> Absent, log |-> Absent, prs |-> EmptyPRCache]
NoBaseline == [valid |-> FALSE, mode |-> "none", result |-> NoResult, failed |-> {}]
NoExit == [how |-> "none", handlers |-> FALSE, flushes |-> <<>>, holdsAll |-> FALSE]
NoLoad == [kind |-> "none", raised |-> "", empty |-> TRUE]
\* main() between setup_cache_handlers and the end of the process
Handled == {"lines", "commits", "github", "done", "readme"}

SetMem(m) ==
    /\ cache' = m.cache
    /\ prCache' = m.prCache
    /\ execs' = m.execs
    /\ ran' = m.ran
    /\ calls' = m.calls
    /\ lastList' = m.lastList

Continue(m, next, res) ==
    /\ SetMem(m)
    /\ dirty' = m.dirty
    /\ pc' = next
    /\ result' = res
    /\ UNCHANGED <<head, svc, ghOk, disk, mode, loadedKeys, exitLog, baseline,
                   fromBaseline, runs, loadLog, rvars, tvars, xvars>>

\* The calls of save_cache as a process ends, one write outcome each.
RECURSIVE Flushes(_, _, _, _)
FlushesNext(m, s, ws, log) ==
    Flushes([m EXCEPT !.dirty = s.dirty], s.disk, Tail(ws),
            Append(log, [was |-> s.was, w |-> s.w, wrote |-> s.wrote,
                         raised |-> s.raised, dirty |-> s.dirty]))

Flushes(m, f, ws, log) ==
    IF ws = <<>> THEN [dirty |-> m.dirty, disk |-> f, log |-> log]
    ELSE FlushesNext(m, SaveCache(m, f, Head(ws)), ws, log)

ExitWithoutFlush(m, how, ws, res) == Flushes(m, disk, <<>>, <<>>)

\* sys.exit or the end of main(): the atexit handler runs save_cache.
AtExit(m, how, ws, res) == Flushes(m, disk, ws, <<>>)

Exit(m, how, ws, res) ==
    \E fl \in {AtExit(m, how, ws, res)} :
    /\ SetMem(m)
    /\ dirty' = fl.dirty
    /\ disk' = fl.disk
    /\ pc' = "off"
    /\ result' = res
    /\ exitLog' = [how |-> how, handlers |-> TRUE, flushes |-> fl.log,
                   holdsAll |-> (fl.disk = File("tuple", m.cache, m.prCache))]
    /\ baseline' = IF /\ how = "success"
                      /\ mode \in {"analysis", "github"}
                      /\ fl.disk = File("tuple", m.cache, m.prCache)
                   THEN [valid |-> TRUE, mode |-> mode, result |-> res,
                         failed |-> {k \in m.ran : m.execs[k] = 0}]
                   ELSE NoBaseline
    /\ UNCHANGED <<head, svc, ghOk, mode, loadedKeys, fromBaseline, runs, loadLog,
                   rvars, tvars, xvars>>

StartProcess(md) ==
    /\ pc = "off"
    /\ runs < MaxRuns
    /\ pc' = "boot"
    /\ mode' = md
    /\ runs' = runs + 1
    /\ cache' = EmptyCache
    /\ prCache' = EmptyPRCache
    /\ dirty' = FALSE
    /\ result' = NoResult
    /\ execs' = [k \in Keys |-> 0]
    /\ ran' = {}
    /\ loadedKeys' = {}
    /\ calls' = {}
    /\ lastList' = NoList
    /\ loadLog' = NoLoad
    /\ fromBaseline' = (baseline.valid /\ baseline.mode = md)
    /\ exitLog' = NoExit
    /\ UNCHANGED <<head, svc, ghOk, disk, baseline, rvars, tvars, xvars>>

\* main() with --clear-cache: clear_cache(), then sys.exit(0); no handler
\* is installed on this path.
ClearCache ==
    /\ pc = "boot"
    /\ mode = "clear"
    /\ disk' = NoFile
    /\ cache' = EmptyCache
    /\ prCache' = EmptyPRCache
    /\ dirty' = FALSE
    /\ pc' = "off"
    /\ exitLog' = [how |-> "clear", handlers |-> FALSE, flushes |-> <<>>,
                   holdsAll |-> FALSE]
    /\ baseline' = NoBaseline
    /\ UNCHANGED <<head, svc, ghOk, mode, result, execs, ran, loadedKeys, calls,
                   lastList, fromBaseline, runs, loadLog, rvars, tvars, xvars>>

\* load_cache(); setup_cache_handlers().  An exception load_cache does not
\* catch ends the process before any handler is installed.
LoadCacheStep ==
    /\ pc = "boot"
    /\ mode # "clear"
    /\ \E l \in {LoadCache(disk)} :
       /\ loadLog' = [kind |-> disk.kind, raised |-> l.raised,
                      empty |-> (l.cache = EmptyCache /\ l.prCache = EmptyPRCache)]
       /\ cache' = l.cache
       /\ prCache' = l.prCache
       /\ loadedKeys' = {k \in Keys : l.cache[k] # Absent}
       /\ IF l.raised = ""
          THEN /\ pc' = IF mode = "readme" THEN "readme" ELSE "lines"
               /\ UNCHANGED <<exitLog, baseline>>
          ELSE /\ pc' = "off"
               /\ exitLog' = [how |-> "crash", handlers |-> FALSE, flushes |-> <<>>,
                              holdsAll |-> FALSE]
               /\ baseline' = NoBaseline
    /\ UNCHANGED <<head, svc, ghOk, disk, dirty, mode, result, execs, ran, calls,
                   lastList, fromBaseline, runs, rvars, tvars, xvars>>

\* _collect_line_stats
CollectLineStats ==
    /\ pc = "lines"
    /\ \E m \in {TrackedFileFiles(Mem, head)} :
       IF m.err = ""
       THEN Continue(m, "commits",
                     [result EXCEPT !.tree = m.out[1], !.blameAt = m.out[2]])
       ELSE \E w \in WriteOutcomes : Exit(m, "error", <<w>>, result)

\* _collect_commit_stats
CollectCommitStatsStep ==
    /\ pc = "commits"
    /\ \E m \in {CollectCommitStats(Mem, head)} :
       IF m.err = ""
       THEN Continue(m, IF mode = "github" THEN "github" ELSE "done",
                     [result EXCEPT !.log = m.out])
       ELSE \E w \in WriteOutcomes : Exit(m, "error", <<w>>, result)

\* _collect_github_stats: repo.get_pull_requests()
CollectGithubStats ==
    /\ pc = "github"
    /\ \E m \in {GetPullRequests(Mem, svc, ghOk, head)} :
       IF m.err = ""
       THEN Continue(m, "done", [result EXCEPT !.prs = m.lastList.got])
       ELSE \E w \in WriteOutcomes : Exit(m, "error", <<w>>, result)

\* The report is printed and main() returns.
Finish ==
    /\ pc = "done"
    /\ \E w \in WriteOutcomes : Exit(Mem, "success", <<w>>, result)

\* An error main() handles (a configuration error, an unknown author, a
\* failure of the review service): the message, then sys.exit(1).
HandledError ==
    /\ pc \in {"lines", "commits", "github"}
    /\ \E w \in WriteOutcomes : Exit(Mem, "error", <<w>>, result)

\* show_readme and fetch_readme, then sys.exit.
FetchReadme ==
    /\ pc = "readme"
    /\ \E net \in BOOLEAN, w \in WriteOutcomes :
         IF cache[ReadmeKey] # Absent
         THEN Exit(Mem, "success", <<w>>, result)
         ELSE IF net
              THEN Exit([Mem EXCEPT !.cache[ReadmeKey] = "doc",
                                    !.dirty = (@ \/ DirtyAfterStore)],
                        "success", <<w>>, result)
              ELSE Exit(Mem, "error", <<w>>, result)

\* SIGINT, SIGTERM or SIGHUP: _signal_handler runs save_cache, then
\* sys.exit(0), and the atexit handler runs save_cache again.
Signal ==
    /\ pc \in Handled
    /\ \E w1 \in WriteOutcomes, w2 \in WriteOutcomes :
         Exit(Mem, "signal", <<w1, w2>>, result)

(***************************************************************************)
(* The environment, between invocations.                                   *)
(***************************************************************************)
EnvUnchanged ==
    UNCHANGED <<cache, prCache, dirty, pc, mode, result, execs, ran, loadedKeys,
                calls, lastList, exitLog, fromBaseline, runs, loadLog, rvars, tvars, xvars>>

\* A commit is made: HEAD moves.
NewCommit ==
    /\ pc = "off"
    /\ runs < MaxRuns
    /\ Idx(head) < Len(LocalHistory)
    /\ head' = LocalHistory[Idx(head) + 1]
    /\ baseline' = NoBaseline
    /\ UNCHANGED <<svc, ghOk, disk>>
    /\ EnvUnchanged

\* A request is closed, merged or reopened.
ServiceChange ==
    /\ pc = "off"
    /\ runs < MaxRuns
    /\ \E n \in PRs, s \in PRStates :
         /\ \/ svc[n] = "OPEN" /\ s \in {"CLOSED", "MERGED"}
            \/ svc[n] = "CLOSED" /\ s = "OPEN"
         /\ svc' = [svc EXCEPT ![n] = s]
    /\ baseline' = NoBaseline
    /\ UNCHANGED <<head, ghOk, disk>>
    /\ EnvUnchanged

\* The review service starts or stops answering commit-list queries.
ServiceOutage ==
    /\ pc = "off"
    /\ runs < MaxRuns
    /\ ghOk' = ~ghOk
    /\ baseline' = NoBaseline
    /\ UNCHANGED <<head, svc, disk>>
    /\ EnvUnchanged

\* The file is removed, damaged or replaced.
DiskDamage ==
    /\ pc = "off"
    /\ runs < MaxRuns
    /\ \E f \in {NoFile} \cup {File(k, EmptyCache, EmptyPRCache) : k \in DamagedKinds} :
         /\ f # disk
         /\ disk' = f
    /\ baseline' = NoBaseline
    /\ UNCHANGED <<head, svc, ghOk>>
    /\ EnvUnchanged

InitCache ==
    /\ head = "c1"
    /\ svc = [n \in PRs |-> "OPEN"]
    /\ ghOk = TRUE
    /\ disk = NoFile
    /\ cache = EmptyCache
    /\ prCache = EmptyPRCache
    /\ dirty = FALSE
    /\ pc = "off"
    /\ mode = "none"
    /\ result = NoResult
    /\ execs = [k \in Keys |-> 0]
    /\ ran = {}
    /\ loadedKeys = {}
    /\ calls = {}
    /\ lastList = NoList
    /\ exitLog = NoExit
    /\ baseline = NoBaseline
    /\ fromBaseline = FALSE
    /\ runs = 0
    /\ loadLog = NoLoad

IdleTrailer == message_lines = <<>> /\ parsed = NoParse

(***************************************************************************)
(* Attribution: _collect_line_stats and _collect_commit_stats over a       *)
(* bounded repository.  A path, a pattern and the content of a line are    *)
(* sequences of characters; a commit carries its author pair, its message  *)
(* lines and what it does to each path it touches.                         *)
(***************************************************************************)

\* fnmatch.fnmatch on a POSIX file system: "*" matches any run of
\* characters, "/" included, "?" matches one character
RECURSIVE Fnmatch(_, _)
Fnmatch(name, pat) ==
    IF pat = <<>> THEN name = <<>>
    ELSE IF Head(pat) = "*"
         THEN Fnmatch(name, Tail(pat)) \/ (name # <<>> /\ Fnmatch(Tail(name), pat))
         ELSE IF Head(pat) = "?"
              THEN name # <<>> /\ Fnmatch(Tail(name), Tail(pat))
              ELSE name # <<>> /\ Head(name) = Head(pat)
                   /\ Fnmatch(Tail(name), Tail(pat))

NeverExclude(file_path, exclude) == FALSE

MatchesInclude(file_path, include) ==
    \E i \in 1..Len(include) : Fnmatch(file_path, include[i])
ShouldExclude(file_path, exclude) ==
    \E i \in 1..Len(exclude) : Fnmatch(file_path, exclude[i])

\* the files of the repository: a.py and t/a.py, in the order git lists them
PathA == <<"a", ".", "p", "y">>
PathT == <<"t", "/", "a", ".", "p", "y">>
TrackedPaths == <<PathA, PathT>>
PathSet == {PathA, PathT}
\* files.include and files.exclude of the roster file
Filters ==
    {[include |-> << <<"*", ".", "p", "y">> >>, exclude |-> <<>>],
     [include |-> << <<"*", ".", "p", "y">> >>, exclude |-> << <<"t", "/", "*">> >>],
     [include |-> << <<"a", "*">>, <<"*", "/", "?", ".", "p", "y">>,
                     <<"*", ".", "p", "y">> >>,
      exclude |-> << <<"t", "*">> >>]}

\* the roster: students A and Bob, one ignored author; the pair
\* (A, b@y.com) is in no entry
StudentBob == [id |-> 2, name |-> "Bob", email |-> "b@y.com",
               other_names |-> {}, other_emails |-> {}]
IgnoredAuthor == [id |-> 3, name |-> "Bob", email |-> "a@x.com",
                  other_names |-> {}, other_emails |-> {}]
Students == <<AuthorA, StudentBob>>
Ignore == <<IgnoredAuthor>>
RECURSIVE RegisterAll(_, _)
RegisterAll(reg, authors) ==
    IF authors = <<>> THEN reg
    ELSE RegisterAll(RegisterWithAliases(reg, Head(authors)).registry, Tail(authors))
RosterRegistry == RegisterAll(RegisterAll(EmptyRegistry, Students), Ignore)

\* Author.__hash__ and __eq__: an author is its (name, email)
AuthorKey(a) == <<a.name, a.email>>
StudentKeys == {AuthorKey(Students[i]) : i \in 1..Len(Students)}
IgnoredAuthors == {AuthorKey(Ignore[i]) : i \in 1..Len(Ignore)}

\* commit hashes, oldest first
HashDigits == <<"1", "2", "3", "4">>
HashAt(i) == <<"h", HashDigits[i]>>

\* a Co-authored-by trailer naming a pair
EmailTokens(email) ==
    IF email = "a@x.com" THEN <<"a", "@", "x.com">> ELSE <<"b", "@", "y.com">>
TrailerLine(key) ==
    <<"Co-authored-by", ":", " ", key[1], " ", "<">> \o EmailTokens(key[2]) \o <<">">>
CommitMessages == {<<>>} \cup {<<TrailerLine(key)>> : key \in RegKeys}

\* what a commit does to a path: "add" appends a line of text, "blank"
\* appends an empty line, "indent" re-indents every line of text
ChangeSets ==
    {<<[path |-> PathA, kind |-> "add"]>>,
     <<[path |-> PathA, kind |-> "indent"]>>,
     <<[path |-> PathA, kind |-> "blank"]>>,
     <<[path |-> PathT, kind |-> "add"]>>,
     <<[path |-> PathA, kind |-> "add"], [path |-> PathT, kind |-> "add"]>>}

IsText(content) == Strip(content) # <<>>

Reindent(file, hash) ==
    [i \in 1..Len(file) |->
        IF IsText(file[i].content)
        THEN [hash |-> hash, content |-> <<" ">> \o file[i].content]
        ELSE file[i]]

\* the file after a change, each line with the commit git blame names for it
ApplyChange(file, hash, kind) ==
    CASE kind = "add" -> Append(file, [hash |-> hash, content |-> <<"x">>])
      [] kind = "blank" -> Append(file, [hash |-> hash, content |-> <<>>])
      [] OTHER -> Reindent(file, hash)

RECURSIVE ApplyChanges(_, _, _)
ApplyChanges(tree, hash, changes) ==
    IF changes = <<>> THEN tree
    ELSE ApplyChanges([tree EXCEPT ![Head(changes).path] =
                          ApplyChange(@, hash, Head(changes).kind)],
                      hash, Tail(changes))

EmptyTree == [p \in PathSet |-> <<>>]
RECURSIVE TreeAt(_, _)
TreeAt(history, n) ==
    IF n = 0 THEN EmptyTree
    ELSE ApplyChanges(TreeAt(history, n - 1), history[n].hash, history[n].changes)

\* a change that can be made to the tree
Applicable(tree, changes) ==
    \A i \in 1..Len(changes) :
        changes[i].kind = "indent" =>
            \E j \in 1..Len(tree[changes[i].path]) :
                IsText(tree[changes[i].path][j].content)

\* the added and removed lines of the patch git show prints for a path
DiffContents(file, kind) ==
    CASE kind = "add" -> {<<"x">>}
      [] kind = "blank" -> {<<>>}
      [] OTHER -> UNION {{file[j].content, <<" ">> \o file[j].content} :
                           j \in {k \in 1..Len(file) : IsText(file[k].content)}}

CommitAt(history, hash) ==
    history[CHOOSE i \in 1..Len(history) : history[i].hash = hash]
IndexOf(history, hash) ==
    CHOOSE i \in 1..Len(history) : history[i].hash = hash

\* Repo.get_commit_non_whitespace_files: the paths of the patch with an
\* added or removed line whose content is not blank
NonWhitespaceFiles(history, hash) ==
    LET n == IndexOf(history, hash) IN
    {history[n].changes[i].path : i \in
        {j \in 1..Len(history[n].changes) :
            \E content \in DiffContents(TreeAt(history, n - 1)[history[n].changes[j].path],
                                         history[n].changes[j].kind) :
                Strip(content) # <<>>}}

\* Commit.get of a hash of the history: the author resolves or the call raises
AttrGetCommit(reg, history, hash) ==
    AuthorGet(reg, CommitAt(history, hash).name, CommitAt(history, hash).email,
              "commit", Join(HashPrefix(hash)))

\* ls-tree at HEAD filtered by a pattern, in git's order
RECURSIVE FilesMatching(_, _, _)
FilesMatching(tree, paths, pattern) ==
    IF paths = <<>> THEN <<>>
    ELSE IF tree[Head(paths)] # <<>> /\ Fnmatch(Head(paths), pattern)
         THEN <<Head(paths)>> \o FilesMatching(tree, Tail(paths), pattern)
         ELSE FilesMatching(tree, Tail(paths), pattern)

\* TrackedFile.get raises when Commit.get of a blamed hash raises
BlameRaises(reg, history, file) ==
    \E i \in 1..Len(file) : AttrGetCommit(reg, history, file[i].hash).raised # ""

\* the co-authors that are not ignored
RECURSIVE ValidCoAuthors(_)
ValidCoAuthors(co_authors) ==
    IF co_authors = <<>> THEN <<>>
    ELSE IF AuthorKey(Head(co_authors)) \in IgnoredAuthors
         THEN ValidCoAuthors(Tail(co_authors))
         ELSE <<AuthorKey(Head(co_authors))>> \o ValidCoAuthors(Tail(co_authors))

\* an entry of a line bucket: the content, and where the line came from
LineEntry(line, path, no) ==
    [content |-> line.content, commit |-> line.hash, line |-> no]

AppendToFirst(bucket, keys, path, entry) ==
    IF Head(keys) \in DOMAIN bucket
    THEN [bucket EXCEPT ![Head(keys)][path] = Append(@, entry)]
    ELSE bucket

\* append to the list under path of every key that has a bucket
RECURSIVE AppendLines(_, _, _, _)
AppendLines(bucket, keys, path, entry) ==
    IF keys = <<>> THEN bucket
    ELSE AppendLines(IF Head(keys) \in DOMAIN bucket
                     THEN [bucket EXCEPT ![Head(keys)][path] = Append(@, entry)]
                     ELSE bucket,
                     Tail(keys), path, entry)

\* coauthors_cache[commit.hash] = commit.get_co_authors() when absent
CoAuthorsCached(st, reg, history, hash) ==
    IF hash \in DOMAIN st.coauthors_cache THEN st
    ELSE IF GetCoAuthors(reg, CommitAt(history, hash).message_lines, hash).raised # ""
         THEN [st EXCEPT !.raised = "UnknownAuthorError"]
         ELSE [st EXCEPT !.coauthors_cache =
                  (hash :> GetCoAuthors(reg, CommitAt(history, hash).message_lines,
                                        hash).co_authors) @@ @]

LineClassifiedBoth(st, author, path, entry) ==
    IF st.raised # "" THEN st
    ELSE [st EXCEPT !.collab_lines = AppendLines(@, <<author>>, path, entry),
                    !.alone_lines = AppendLines(@, <<author>>, path, entry)]

LineClassified(st, author, path, entry) ==
    IF st.raised # "" THEN st
    ELSE IF ValidCoAuthors(st.coauthors_cache[entry.commit]) # <<>>
         THEN [st EXCEPT !.collab_lines =
                  AppendLines(@, <<author>> \o
                                 ValidCoAuthors(st.coauthors_cache[entry.commit]),
                              path, entry)]
         ELSE [st EXCEPT !.alone_lines = AppendLines(@, <<author>>, path, entry)]

\* the body of the loop over tracked_file.lines
LineStep(st, reg, history, path, line, no) ==
    IF ~IsText(line.content) THEN st
    ELSE IF AuthorKey(AttrGetCommit(reg, history, line.hash).author) \in IgnoredAuthors
         THEN st
         ELSE LineClassified(
                  CoAuthorsCached([st EXCEPT !.file_commits[path] = @ \cup {line.hash}],
                                  reg, history, line.hash),
                  AuthorKey(AttrGetCommit(reg, history, line.hash).author),
                  path, LineEntry(line, path, no))

RECURSIVE LineLoop(_, _, _, _, _, _)
LineLoop(st, reg, history, path, file, no) ==
    IF no > Len(file) \/ st.raised # "" THEN st
    ELSE LineLoop(LineStep(st, reg, history, path, file[no], no),
                  reg, history, path, file, no + 1)

\* the loop over repo.files(pattern)
RECURSIVE FileLoop(_, _, _, _, _, _)
FileLoop(st, reg, history, tree, files, exclude) ==
    IF files = <<>> \/ st.raised # "" THEN st
    ELSE IF BlameRaises(reg, history, tree[Head(files)])
         THEN [st EXCEPT !.raised = "UnknownAuthorError"]
         ELSE IF ShouldExclude(Head(files), exclude)
              THEN FileLoop(st, reg, history, tree, Tail(files), exclude)
              ELSE FileLoop(LineLoop(st, reg, history, Head(files),
                                     tree[Head(files)], 1),
                            reg, history, tree, Tail(files), exclude)

\* the loop over include_patterns
RECURSIVE PatternLoop(_, _, _, _, _, _)
PatternLoop(st, reg, history, tree, include, exclude) ==
    IF include = <<>> \/ st.raised # "" THEN st
    ELSE PatternLoop(FileLoop(st, reg, history, tree,
                              FilesMatching(tree, TrackedPaths, Head(include)),
                              exclude),
                     reg, history, tree, Tail(include), exclude)

NoLines == [s \in StudentKeys |-> [p \in PathSet |-> <<>>]]
NoCommits == [s \in StudentKeys |-> {}]
NoFileCommits == [p \in PathSet |-> {}]
LineStatsStart ==
    [alone_lines |-> NoLines, collab_lines |-> NoLines,
     file_commits |-> NoFileCommits, coauthors_cache |-> <<>>, raised |-> ""]

\* _collect_line_stats
LineStats(reg, history, include, exclude) ==
    PatternLoop(LineStatsStart, reg, history, TreeAt(history, Len(history)),
                include, exclude)

\* Repo.get_all_commits: git log, newest first, each hash with its paths
ChangedFiles(changes) == [i \in 1..Len(changes) |-> changes[i].path]
AllCommits(history) ==
    [i \in 1..Len(history) |->
        [hash |-> history[Len(history) + 1 - i].hash,
         files |-> ChangedFiles(history[Len(history) + 1 - i].changes)]]

MatchingFiles(files, include, exclude) ==
    {files[i] : i \in {j \in 1..Len(files) :
        MatchesInclude(files[j], include) /\ ~ShouldExclude(files[j], exclude)}}

\* add the hash to the set of every key that has a set
RECURSIVE AddCommit(_, _, _)
AddCommit(sets, keys, hash) ==
    IF keys = <<>> THEN sets
    ELSE AddCommit(IF Head(keys) \in DOMAIN sets
                   THEN [sets EXCEPT ![Head(keys)] = @ \cup {hash}]
                   ELSE sets,
                   Tail(keys), hash)

CommitClassified(st, author, hash) ==
    IF st.raised # "" THEN st
    ELSE IF ValidCoAuthors(st.coauthors_cache[hash]) # <<>>
         THEN [st EXCEPT !.collab_commits =
                  AddCommit(@, <<author>> \o ValidCoAuthors(st.coauthors_cache[hash]),
                            hash)]
         ELSE [st EXCEPT !.alone_commits = AddCommit(@, <<author>>, hash)]

\* the try around repo.get_commit: the commit is skipped when it raises
CommitSkipsUnknownAuthor(reg, history, hash) ==
    AttrGetCommit(reg, history, hash).raised # ""

\* the body of the loop over repo.get_all_commits()
CommitStep(st, reg, history, c, include, exclude) ==
    IF MatchingFiles(c.files, include, exclude) = {} THEN st
    ELSE IF MatchingFiles(c.files, include, exclude) \cap
               NonWhitespaceFiles(history, c.hash) = {} THEN st
    ELSE IF CommitSkipsUnknownAuthor(reg, history, c.hash) THEN st
    ELSE IF AuthorKey(AttrGetCommit(reg, history, c.hash).author) \in IgnoredAuthors
         THEN st
    ELSE CommitClassified(CoAuthorsCached(st, reg, history, c.hash),
                          AuthorKey(AttrGetCommit(reg, history, c.hash).author),
                          c.hash)

RECURSIVE CommitStatsLoop(_, _, _, _, _, _)
CommitStatsLoop(st, reg, history, all, include, exclude) ==
    IF all = <<>> \/ st.raised # "" THEN st
    ELSE CommitStatsLoop(CommitStep(st, reg, history, Head(all), include, exclude),
                         reg, history, Tail(all), include, exclude)

\* _collect_commit_stats
CommitStats(reg, history, include, exclude, coauthors) ==
    CommitStatsLoop([alone_commits |-> NoCommits, collab_commits |-> NoCommits,
                     coauthors_cache |-> coauthors, raised |-> ""],
                    reg, history, AllCommits(history), include, exclude)

\* a commit is made on the branch
MakeCommit ==
    /\ apc = "repo"
    /\ Len(commits) < MaxCommits
    /\ \E key \in RegKeys, msg \in CommitMessages, changes \in ChangeSets :
         /\ Applicable(TreeAt(commits, Len(commits)), changes)
         /\ commits' = Append(commits,
                              [hash |-> HashAt(Len(commits) + 1),
                               name |-> key[1], email |-> key[2],
                               message_lines |-> msg, changes |-> changes])
    /\ UNCHANGED <<include_patterns, exclude_patterns, alone_lines, collab_lines,
                   file_commits, coauthors_cache, alone_commits, collab_commits,
                   apc, araised>>
    /\ UNCHANGED <<cvars, rvars, tvars, gvars, ovars, fvars, yvars>>

\* main() runs _collect_line_stats
LineStatsPass ==
    /\ apc = "repo"
    /\ commits # <<>>
    /\ \E st \in {LineStats(registry, commits, include_patterns, exclude_patterns)} :
         IF st.raised # ""
         THEN /\ apc' = "lines_failed"
              /\ araised' = st.raised
              /\ UNCHANGED <<alone_lines, collab_lines, file_commits, coauthors_cache>>
         ELSE /\ apc' = "lines"
              /\ alone_lines' = st.alone_lines
              /\ collab_lines' = st.collab_lines
              /\ file_commits' = st.file_commits
              /\ coauthors_cache' = st.coauthors_cache
              /\ UNCHANGED araised
    /\ UNCHANGED <<include_patterns, exclude_patterns, commits, alone_commits,
                   collab_commits>>
    /\ UNCHANGED <<cvars, rvars, tvars, gvars, ovars, fvars, yvars>>

\* main() runs _collect_commit_stats with the cache of the line pass
CommitStatsPass ==
    /\ apc = "lines"
    /\ \E st \in {CommitStats(registry, commits, include_patterns, exclude_patterns,
                              coauthors_cache)} :
         IF st.raised # ""
         THEN /\ apc' = "commits_failed"
              /\ araised' = st.raised
              /\ UNCHANGED <<alone_commits, collab_commits, coauthors_cache>>
         ELSE /\ apc' = "commits"
              /\ alone_commits' = st.alone_commits
              /\ collab_commits' = st.collab_commits
              /\ coauthors_cache' = st.coauthors_cache
              /\ UNCHANGED araised
    /\ UNCHANGED <<include_patterns, exclude_patterns, commits, alone_lines,
                   collab_lines, file_commits>>
    /\ UNCHANGED <<cvars, rvars, tvars, gvars, ovars, fvars, yvars>>

IdleAttribution ==
    /\ include_patterns = <<>>
    /\ exclude_patterns = <<>>
    /\ commits = <<>>
    /\ alone_lines = NoLines
    /\ collab_lines = NoLines
    /\ file_commits = NoFileCommits
    /\ coauthors_cache = <<>>
    /\ alone_commits = NoCommits
    /\ collab_commits = NoCommits
    /\ apc = "off"
    /\ araised = ""

(***************************************************************************)
(* Review attribution: _collect_github_stats over the requests that        *)
(* Repo.get_pull_requests returns.  A handle is a sequence of characters.  *)
(***************************************************************************)

\* str.lower on the characters of the handles
LowerChar(c) ==
    CASE c = "A" -> "a"
      [] c = "L" -> "l"
      [] c = "B" -> "b"
      [] c = "O" -> "o"
      [] c = "F" -> "f"
      [] OTHER -> c
LowerStr(s) == [i \in 1..Len(s) |-> LowerChar(s[i])]

\* str.startswith
StartsWith(s, prefix) ==
    Len(s) >= Len(prefix) /\ SubSeq(s, 1, Len(prefix)) = prefix

\* github_username of the students: A is "Al", Bob is "bo"
GithubUsername(author) ==
    IF author = AuthorA THEN <<"A", "l">> ELSE <<"b", "o">>

\* username_to_author.get: a later student replaces an earlier one that has
\* the same lower-cased handle
UsernameToAuthor(username) ==
    IF \E i \in 1..Len(Students) : LowerStr(GithubUsername(Students[i])) = username
    THEN Students[MaxOf({i \in 1..Len(Students) :
                           LowerStr(GithubUsername(Students[i])) = username})]
    ELSE NoAuthor

\* the requests of the review service
PRAuthors == {<<"A", "L">>, <<"b", "o">>, <<"a", "p", "p", "/", "b">>, <<"z">>}
PRFileSets ==
    {<<[path |-> PathA, has_non_whitespace_changes |-> TRUE]>>,
     <<[path |-> PathA, has_non_whitespace_changes |-> FALSE]>>,
     <<[path |-> PathT, has_non_whitespace_changes |-> TRUE]>>}
PRCommitSets ==
    {<<[co_authors |-> <<>>]>>,
     <<[co_authors |-> <<>>], [co_authors |-> << <<"b", "o">> >>]>>}
PRReviewSets ==
    {<<>>,
     <<[reviewer_username |-> <<"b", "o">>, state |-> "APPROVED"],
       [reviewer_username |-> <<"B", "O">>, state |-> "APPROVED"],
       [reviewer_username |-> <<"b", "o">>, state |-> "CHANGES_REQUESTED"]>>,
     <<[reviewer_username |-> <<"A", "l">>, state |-> "CHANGES_REQUESTED"],
       [reviewer_username |-> <<"z">>, state |-> "APPROVED"],
       [reviewer_username |-> <<"a", "l">>, state |-> "COMMENTED"],
       [reviewer_username |-> <<"a", "l">>, state |-> "CHANGES_REQUESTED"]>>}
PullRequests ==
    [author_username : PRAuthors, state : {"OPEN", "MERGED", "CLOSED"},
     files : PRFileSets, commits : PRCommitSets, reviews : PRReviewSets]

\* PullRequest.is_merged, PullRequest.is_open
IsMerged(pr) == pr.state = "MERGED"
IsOpen(pr) == pr.state = "OPEN"

PrHasMatchingFiles(pr, include, exclude) ==
    \E i \in 1..Len(pr.files) :
        /\ MatchesInclude(pr.files[i].path, include)
        /\ ~ShouldExclude(pr.files[i].path, exclude)
        /\ pr.files[i].has_non_whitespace_changes

PrIsCollab(pr) ==
    \E i \in 1..Len(pr.commits) : pr.commits[i].co_authors # <<>>

\* the counter of the author that a counted request raises
PrCounter(pr) ==
    IF PrIsCollab(pr)
    THEN IF IsMerged(pr) THEN "prs_collab_merged" ELSE "prs_collab_open"
    ELSE IF IsMerged(pr) THEN "prs_alone_merged" ELSE "prs_alone_open"

AuthorCounted(stats, pr) ==
    IF UsernameToAuthor(LowerStr(pr.author_username)) = NoAuthor THEN stats
    ELSE [stats EXCEPT
            ![AuthorKey(UsernameToAuthor(LowerStr(pr.author_username)))][PrCounter(pr)] =
                @ + 1]

CountEveryReview(stats, reviewer, seen, counter) ==
    [stats EXCEPT ![reviewer][counter] = @ + 1]

\* a review of a disposition counts unless its reviewer was seen with it
CountOnce(stats, reviewer, seen, counter) ==
    IF reviewer \in seen THEN stats
    ELSE [stats EXCEPT ![reviewer][counter] = @ + 1]

\* the loop over pr.reviews
RECURSIVE ReviewLoop(_, _, _, _)
ReviewLoop(stats, reviews, seen_approvers, seen_change_requesters) ==
    IF reviews = <<>> THEN stats
    ELSE IF UsernameToAuthor(LowerStr(Head(reviews).reviewer_username)) = NoAuthor
         THEN ReviewLoop(stats, Tail(reviews), seen_approvers, seen_change_requesters)
    ELSE IF Head(reviews).state = "APPROVED"
         THEN ReviewLoop(
                  CountOnce(stats,
                      AuthorKey(UsernameToAuthor(LowerStr(Head(reviews).reviewer_username))),
                      seen_approvers, "approvals_given"),
                  Tail(reviews),
                  seen_approvers \cup
                      {AuthorKey(UsernameToAuthor(LowerStr(Head(reviews).reviewer_username)))},
                  seen_change_requesters)
    ELSE IF Head(reviews).state = "CHANGES_REQUESTED"
         THEN ReviewLoop(
                  CountOnce(stats,
                      AuthorKey(UsernameToAuthor(LowerStr(Head(reviews).reviewer_username))),
                      seen_change_requesters, "change_requests_given"),
                  Tail(reviews),
                  seen_approvers,
                  seen_change_requesters \cup
                      {AuthorKey(UsernameToAuthor(LowerStr(Head(reviews).reviewer_username)))})
    ELSE ReviewLoop(stats, Tail(reviews), seen_approvers, seen_change_requesters)

CountSkippedToo(pr, include, exclude) ==
    StartsWith(pr.author_username, <<"a", "p", "p", "/">>)

PrSkipped(pr, include, exclude) ==
    \/ StartsWith(pr.author_username, <<"a", "p", "p", "/">>)
    \/ ~PrHasMatchingFiles(pr, include, exclude)
    \/ (~IsMerged(pr) /\ ~IsOpen(pr))

\* the requests whose author is counted
PrCounted(pr, include, exclude) == ~PrSkipped(pr, include, exclude)

\* the body of the loop over pull_requests
PrStep(stats, pr, include, exclude) ==
    IF ~PrCounted(pr, include, exclude) THEN stats
    ELSE ReviewLoop(AuthorCounted(stats, pr), pr.reviews, {}, {})

RECURSIVE PrLoop(_, _, _, _)
PrLoop(stats, prs, include, exclude) ==
    IF prs = <<>> THEN stats
    ELSE PrLoop(PrStep(stats, Head(prs), include, exclude), Tail(prs), include, exclude)

\* GitHubStats()
NoStats ==
    [s \in StudentKeys |->
        [prs_alone_merged |-> 0, prs_alone_open |-> 0,
         prs_collab_merged |-> 0, prs_collab_open |-> 0,
         approvals_given |-> 0, change_requests_given |-> 0]]

GithubStats(prs, include, exclude) == PrLoop(NoStats, prs, include, exclude)

\* a request appears on the review service
OpenRequest ==
    /\ gpc = "service"
    /\ Len(pull_requests) < MaxRequests
    /\ \E pr \in PullRequests : pull_requests' = Append(pull_requests, pr)
    /\ UNCHANGED <<github_stats, gpc>>
    /\ UNCHANGED <<cvars, rvars, tvars, avars, ovars, fvars, yvars>>

\* main() runs _collect_github_stats, after the two other passes
GithubStatsPass ==
    /\ apc = "commits"
    /\ gpc = "service"
    /\ pull_requests # <<>>
    /\ github_stats' = GithubStats(pull_requests, include_patterns, exclude_patterns)
    /\ gpc' = "done"
    /\ UNCHANGED pull_requests
    /\ UNCHANGED <<cvars, rvars, tvars, avars, ovars, fvars, yvars>>

IdleReview == pull_requests = <<>> /\ github_stats = NoStats /\ gpc = "off"

(***************************************************************************)
(* Roster loading: StudentsConfig.from_dict on the parsed roster file.  A  *)
(* field of an entry is missing, the empty string, or a value.             *)
(***************************************************************************)
Missing == "<missing>"
StudentEntries ==
    [id : {Missing, "", "1"}, name : {Missing, "", "A"},
     email : {Missing, "", "a@x.com"}, github_username : {Missing, "", "al"}]
IgnoreEntries ==
    [name : {Missing, "", "Bob"}, email : {Missing, "", "b@y.com"}]
RosterKeys == {"A", "Bob"} \X {"a@x.com", "b@y.com", ""}

\* `"f" not in s or not s["f"]`
MissingOrEmpty(v) == v = Missing \/ v = ""

\* `"github_username" not in s`
HandleMissing(s) == s.github_username = Missing

\* the checks of a student entry, in order: the field of the first that fails
StudentCheck(s) ==
    IF MissingOrEmpty(s.id) THEN "id"
    ELSE IF MissingOrEmpty(s.name) THEN "name"
    ELSE IF MissingOrEmpty(s.email) THEN "email"
    ELSE IF HandleMissing(s) THEN "github_username"
    ELSE ""

\* the checks of an ignore entry
IgnoreCheck(e) ==
    IF MissingOrEmpty(e.name) THEN "name"
    ELSE IF e.email = Missing THEN "email"
    ELSE ""

ConfigError(cfg, list, i, field) ==
    [cfg EXCEPT !.raised = "StudentsConfigError", !.list = list,
                !.index = i, !.field = field]

\* the Author built from a student entry and from an ignore entry
StudentAuthor(s, i) ==
    [id |-> i + 1, name |-> s.name, email |-> s.email,
     other_names |-> {}, other_emails |-> {}]
IgnoreAuthor(e, i) ==
    [id |-> i + 11, name |-> e.name, email |-> e.email,
     other_names |-> {}, other_emails |-> {}]

StudentRegistered(cfg, s, i) ==
    [cfg EXCEPT !.registry = RegisterWithAliases(@, StudentAuthor(s, i)).registry,
                !.students = Append(@, [author |-> RegisterWithAliases(
                                                      cfg.registry,
                                                      StudentAuthor(s, i)).ret,
                                        github_username |-> s.github_username])]
IgnoreRegistered(cfg, e, i) ==
    [cfg EXCEPT !.registry = RegisterWithAliases(@, IgnoreAuthor(e, i)).registry,
                !.ignore = Append(@, RegisterWithAliases(cfg.registry,
                                                         IgnoreAuthor(e, i)).ret)]

\* the loop over the ignore entries; i counts from 0 as enumerate does
RECURSIVE IgnoreLoop(_, _, _)
IgnoreLoop(cfg, entries, i) ==
    IF entries = <<>> THEN [cfg EXCEPT !.returned = TRUE]
    ELSE IF IgnoreCheck(Head(entries)) # ""
         THEN ConfigError(cfg, "Ignore", i, IgnoreCheck(Head(entries)))
         ELSE IgnoreLoop(IgnoreRegistered(cfg, Head(entries), i), Tail(entries), i + 1)

\* the loop over the student entries
RECURSIVE StudentLoop(_, _, _, _)
StudentLoop(cfg, entries, i, ignore_raw) ==
    IF entries = <<>> THEN IgnoreLoop(cfg, ignore_raw, 0)
    ELSE IF StudentCheck(Head(entries)) # ""
         THEN ConfigError(cfg, "Student", i, StudentCheck(Head(entries)))
         ELSE StudentLoop(StudentRegistered(cfg, Head(entries), i),
                          Tail(entries), i + 1, ignore_raw)

NoConfig(reg) ==
    [raised |-> "", list |-> "", index |-> 0, field |-> "", returned |-> FALSE,
     students |-> <<>>, ignore |-> <<>>, registry |-> reg]

\* StudentsConfig.from_dict
FromDict(reg, data) == StudentLoop(NoConfig(reg), data.students, 0, data.ignore)

EmptyRosterRegistry == [key \in RosterKeys |-> NoAuthor]

\* the roster file is edited: a student entry is added
AddStudentEntry ==
    /\ opc = "edit"
    /\ Len(roster.students) + Len(roster.ignore) < MaxEntries
    /\ \E s \in StudentEntries : roster' = [roster EXCEPT !.students = Append(@, s)]
    /\ UNCHANGED <<config, opc>>
    /\ UNCHANGED <<cvars, rvars, tvars, avars, gvars, fvars, yvars>>

\* the roster file is edited: an ignore entry is added
AddIgnoreEntry ==
    /\ opc = "edit"
    /\ Len(roster.students) + Len(roster.ignore) < MaxEntries
    /\ \E e \in IgnoreEntries : roster' = [roster EXCEPT !.ignore = Append(@, e)]
    /\ UNCHANGED <<config, opc>>
    /\ UNCHANGED <<cvars, rvars, tvars, avars, gvars, fvars, yvars>>

\* the roster is loaded
LoadRoster ==
    /\ opc = "edit"
    /\ \E cfg \in {FromDict(registry, roster)} :
         /\ config' = [cfg EXCEPT !.registry = EmptyRosterRegistry]
         /\ registry' = cfg.registry
    /\ opc' = "loaded"
    /\ UNCHANGED <<roster, regLog, regOps>>
    /\ UNCHANGED <<cvars, tvars, avars, gvars, fvars, yvars>>

NoRoster == [students |-> <<>>, ignore |-> <<>>]
IdleRoster == roster = NoRoster /\ config = NoConfig(EmptyRosterRegistry) /\ opc = "off"

(***************************************************************************)
(* Repo._get_pr_commits: the commits of one request, each looked up in the *)
(* local repository first and taken from the review service otherwise.    *)
(***************************************************************************)
\* an oid the local repository does not hold
ForeignOid == <<"h", "9">>
\* an entry of "commits" in the answer of gh pr view
CommitData ==
    [oid : {<<>>, HashAt(1), ForeignOid},
     authors : {<<>>,
                <<[login |-> <<"A", "l">>]>>,
                <<[login |-> <<"A", "l">>], [login |-> <<>>],
                  [login |-> <<"b", "o">>]>>}]

\* `ca.github_username or ca.name`
HandleOrName(author) ==
    IF author \in {AuthorA, StudentBob} THEN GithubUsername(author)
    ELSE <<author.name>>
\* `local_commit.author.github_username or ""`
HandleOrEmpty(author) ==
    IF author \in {AuthorA, StudentBob} THEN GithubUsername(author) ELSE <<>>

HandlesOrNames(co_authors) ==
    [i \in 1..Len(co_authors) |-> HandleOrName(co_authors[i])]

\* self.get_commit(commit_hash) and local_commit.get_co_authors(): rev-parse
\* fails when the backend fails, git show fails on an object the repository
\* does not hold, Author.get fails on a pair that is not registered
LocalLookup(reg, history, oid, git_ok) ==
    IF ~git_ok THEN "CommitNotFoundError"
    ELSE IF \A i \in 1..Len(history) : history[i].hash # oid
         THEN "CalledProcessError"
    ELSE IF AttrGetCommit(reg, history, oid).raised # ""
         THEN "UnknownAuthorError"
    ELSE IF GetCoAuthors(reg, CommitAt(history, oid).message_lines, oid).raised # ""
         THEN "UnknownAuthorError"
    ELSE ""

\* the PullRequestCommit made from the local commit
LocalRecord(reg, history, oid) ==
    [hash |-> oid, source |-> "local",
     author_username |-> HandleOrEmpty(AttrGetCommit(reg, history, oid).author),
     co_authors |->
        HandlesOrNames(GetCoAuthors(reg, CommitAt(history, oid).message_lines,
                                    oid).co_authors)]

\* `[a.get("login", "") for a in authors[1:] if a.get("login")]`
RECURSIVE Logins(_)
Logins(authors) ==
    IF authors = <<>> THEN <<>>
    ELSE IF Head(authors).login # <<>>
         THEN <<Head(authors).login>> \o Logins(Tail(authors))
         ELSE Logins(Tail(authors))

\* the PullRequestCommit made from the service's record
ServiceRecord(data) ==
    [hash |-> data.oid, source |-> "service",
     author_username |-> IF data.authors # <<>> THEN data.authors[1].login ELSE <<>>,
     co_authors |-> IF data.authors # <<>> THEN Logins(Tail(data.authors)) ELSE <<>>]

\* the exceptions the except clause names
FallbackCatches(raised) ==
    raised \in {"CalledProcessError", "IndexError", "ValueError", "UnknownAuthorError"}

\* the body of the loop over data.get("commits", [])
PrCommitStep(res, reg, history, data, git_ok) ==
    IF data.oid = <<>> THEN res
    ELSE IF LocalLookup(reg, history, data.oid, git_ok) = ""
         THEN [res EXCEPT !.commits = Append(@, LocalRecord(reg, history, data.oid))]
    ELSE IF FallbackCatches(LocalLookup(reg, history, data.oid, git_ok))
         THEN [res EXCEPT !.commits = Append(@, ServiceRecord(data))]
    ELSE [res EXCEPT !.raised = LocalLookup(reg, history, data.oid, git_ok)]

RECURSIVE PrCommitLoop(_, _, _, _, _)
PrCommitLoop(res, reg, history, datas, git_ok) ==
    IF datas = <<>> \/ res.raised # "" THEN res
    ELSE PrCommitLoop(PrCommitStep(res, reg, history, Head(datas), git_ok),
                      reg, history, Tail(datas), git_ok)

\* Repo._get_pr_commits
PrCommits(reg, history, datas, gh_ok, git_ok) ==
    IF ~gh_ok THEN [commits |-> <<>>, raised |-> ""]
    ELSE PrCommitLoop([commits |-> <<>>, raised |-> ""], reg, history, datas, git_ok)

\* a commit is made in the local repository
LocalCommit ==
    /\ fpc = "service"
    /\ Len(commits) < MaxLocal
    /\ \E key \in RegKeys, msg \in CommitMessages :
         commits' = Append(commits,
                           [hash |-> HashAt(Len(commits) + 1),
                            name |-> key[1], email |-> key[2],
                            message_lines |-> msg,
                            changes |-> <<[path |-> PathA, kind |-> "add"]>>])
    /\ UNCHANGED <<include_patterns, exclude_patterns, alone_lines, collab_lines,
                   file_commits, coauthors_cache, alone_commits, collab_commits,
                   apc, araised>>
    /\ UNCHANGED <<cvars, rvars, tvars, gvars, ovars, fvars, yvars>>

\* a commit is pushed to the request
ServiceCommit ==
    /\ fpc = "service"
    /\ Len(commit_data) < MaxPrCommits
    /\ \E data \in CommitData : commit_data' = Append(commit_data, data)
    /\ UNCHANGED <<gitOk, ghViewOk, pr_commits, fpc, fraised>>
    /\ UNCHANGED <<cvars, rvars, tvars, avars, gvars, ovars, yvars>>

\* the review service stops answering gh pr view (or answers again)
ServiceViewChange ==
    /\ fpc = "service"
    /\ ghViewOk' = ~ghViewOk
    /\ UNCHANGED <<commit_data, gitOk, pr_commits, fpc, fraised>>
    /\ UNCHANGED <<cvars, rvars, tvars, avars, gvars, ovars, yvars>>

\* git stops working in the repository (or works again)
BackendChange ==
    /\ fpc = "service"
    /\ gitOk' = ~gitOk
    /\ UNCHANGED <<commit_data, ghViewOk, pr_commits, fpc, fraised>>
    /\ UNCHANGED <<cvars, rvars, tvars, avars, gvars, ovars, yvars>>

\* get_pull_requests fetches the commits of the request
GetPrCommitsStep ==
    /\ fpc = "service"
    /\ commit_data # <<>>
    /\ \E res \in {PrCommits(registry, commits, commit_data, ghViewOk, gitOk)} :
         /\ pr_commits' = res.commits
         /\ fraised' = res.raised
    /\ fpc' = "done"
    /\ UNCHANGED <<commit_data, gitOk, ghViewOk>>
    /\ UNCHANGED <<cvars, rvars, tvars, avars, gvars, ovars, yvars>>

IdleFallback ==
    /\ commit_data = <<>>
    /\ gitOk = TRUE
    /\ ghViewOk = TRUE
    /\ pr_commits = <<>>
    /\ fpc = "off"
    /\ fraised = ""

(***************************************************************************)
(* A failing blame: the except clause of TrackedFile.get.  What git wrote  *)
(* on its standard error is a sequence of characters, words separated by   *)
(* one space.                                                              *)
(***************************************************************************)
StderrWords ==
    {<<"f", "a", "t", "a", "l", ":">>, <<"F", "a", "t", "a", "l", ":">>,
     <<"e", "r", "r", "o", "r", ":">>, <<"b", "a", "d">>,
     <<"n", "o">>, <<"s", "u", "c", "h">>, <<"p", "a", "t", "h">>}

\* `needle in hay` on strings
Contains(hay, needle) ==
    \E i \in 1..(Len(hay) - Len(needle) + 1) :
        SubSeq(hay, i, i + Len(needle) - 1) = needle

NoSuchPathText == <<"n", "o", " ", "s", "u", "c", "h", " ", "p", "a", "t", "h">>
FatalText == <<"f", "a", "t", "a", "l", ":">>

\* `except subprocess.CalledProcessError as e`: the exception that leaves
\* TrackedFile.get
BlameExcept(stderr) ==
    IF \/ Contains(LowerStr(stderr), NoSuchPathText)
       \/ Contains(LowerStr(stderr), FatalText)
    THEN "FileNotFoundInRepoError"
    ELSE "CalledProcessError"

\* git blame writes a word on its standard error
BackendWrites ==
    /\ bpc = "git"
    /\ blame_words < MaxWords
    /\ \E w \in StderrWords :
         blame_stderr' = (IF blame_stderr = <<>> THEN w
                          ELSE blame_stderr \o <<" ">> \o w)
    /\ blame_words' = blame_words + 1
    /\ UNCHANGED <<blame_raised, bpc>>
    /\ UNCHANGED <<cvars, rvars, tvars, avars, gvars, ovars, fvars, dvars>>

\* git blame exits with status 0: TrackedFile.get goes on to read its output
BlameReturns ==
    /\ bpc = "git"
    /\ bpc' = "returned"
    /\ UNCHANGED <<blame_stderr, blame_words, blame_raised>>
    /\ UNCHANGED <<cvars, rvars, tvars, avars, gvars, ovars, fvars, dvars>>

\* git blame exits with another status: Executable.__call__ raises
\* CalledProcessError and TrackedFile.get handles it
BlameFails ==
    /\ bpc = "git"
    /\ blame_raised' = BlameExcept(blame_stderr)
    /\ bpc' = "raised"
    /\ UNCHANGED <<blame_stderr, blame_words>>
    /\ UNCHANGED <<cvars, rvars, tvars, avars, gvars, ovars, fvars, dvars>>

IdleBlame ==
    blame_stderr = <<>> /\ blame_words = 0 /\ blame_raised = "" /\ bpc = "off"

(***************************************************************************)
(* The scan of a unified diff: Repo.get_commit_non_whitespace_files and    *)
(* Repo._get_pr_diff_non_whitespace_files.  The diff is kept per file and  *)
(* written out the way git writes it; the scan reads the written lines.    *)
(***************************************************************************)
PathSpaced == <<"b", " ", "c", ".", "p", "y">>
DiffPaths == {PathA, PathSpaced}
\* the lines of a hunk: added, removed and context lines, of text, of
\* whitespace, empty, and of text that begins with the sign of the line
DiffLineKinds ==
    {[sign |-> "+", text |-> <<"x">>],
     [sign |-> "-", text |-> <<"x">>],
     [sign |-> "+", text |-> <<" ">>],
     [sign |-> "-", text |-> <<>>],
     [sign |-> " ", text |-> <<"x">>],
     [sign |-> "-", text |-> <<"-", "-", " ", "x">>],
     [sign |-> "+", text |-> <<"+", "+", "x">>]}

DiffGitPrefix == <<"d", "i", "f", "f", " ", "-", "-", "g", "i", "t", " ">>
\* what git writes for the section of one file: the header, the two file
\* markers and the hunk when lines changed
HunkLines(lines) == [i \in 1..Len(lines) |-> <<lines[i].sign>> \o lines[i].text]
RenderSection(sec) ==
    IF sec.lines = <<>>
    THEN <<DiffGitPrefix \o <<"a", "/">> \o sec.path \o <<" ", "b", "/">> \o sec.path>>
    ELSE <<DiffGitPrefix \o <<"a", "/">> \o sec.path \o <<" ", "b", "/">> \o sec.path,
           <<"-", "-", "-", " ", "a", "/">> \o sec.path,
           <<"+", "+", "+", " ", "b", "/">> \o sec.path,
           <<"@", "@">> >> \o HunkLines(sec.lines)
RECURSIVE RenderDiff(_)
RenderDiff(sections) ==
    IF sections = <<>> THEN <<>>
    ELSE RenderSection(Head(sections)) \o RenderDiff(Tail(sections))

\* line.split(" ")
RECURSIVE Split(_)
Split(s) ==
    IF \A i \in 1..Len(s) : s[i] # " " THEN <<s>>
    ELSE <<SubSeq(s, 1, MinOf({i \in 1..Len(s) : s[i] = " "}) - 1)>> \o
         Split(SubSeq(s, MinOf({i \in 1..Len(s) : s[i] = " "}) + 1, Len(s)))

\* b_path = parts[3], without a leading "b/"
HeaderPath(parts) ==
    IF StartsWith(parts[4], <<"b", "/">>)
    THEN SubSeq(parts[4], 3, Len(parts[4]))
    ELSE parts[4]

\* the body of the loop over diff_output.splitlines(); current_file is
\* empty until a header was read
ScanLine(st, line) ==
    IF StartsWith(line, DiffGitPrefix)
    THEN IF Len(Split(line)) >= 4
         THEN [st EXCEPT !.current_file = HeaderPath(Split(line))]
         ELSE st
    ELSE IF /\ st.current_file # <<>>
            /\ (StartsWith(line, <<"+">>) \/ StartsWith(line, <<"-">>))
         THEN IF StartsWith(line, <<"+", "+", "+">>) \/ StartsWith(line, <<"-", "-", "-">>)
              THEN st
              ELSE IF IsText(Tail(line))
                   THEN [st EXCEPT !.files_with_changes = @ \cup {st.current_file}]
                   ELSE st
         ELSE st

RECURSIVE ScanLines(_, _)
ScanLines(st, lines) ==
    IF lines = <<>> THEN st
    ELSE ScanLines(ScanLine(st, Head(lines)), Tail(lines))

\* the scan of both functions, on the lines of the diff
DiffNonWhitespaceFiles(lines) ==
    ScanLines([current_file |-> <<>>, files_with_changes |-> {}],
              lines).files_with_changes

\* the diff gains the section of one more file
DiffSection ==
    /\ dpc = "diff"
    /\ Len(diff_sections) < MaxSections
    /\ \E path \in DiffPaths :
         /\ \A n \in 1..Len(diff_sections) : diff_sections[n].path # path
         /\ diff_sections' = Append(diff_sections, [path |-> path, lines |-> <<>>])
    /\ UNCHANGED <<non_ws_files, dpc>>
    /\ UNCHANGED <<cvars, rvars, tvars, avars, gvars, ovars, fvars, bvars>>

\* the hunk of the last file gains a line
DiffLine ==
    /\ dpc = "diff"
    /\ diff_sections # <<>>
    /\ Len(diff_sections[Len(diff_sections)].lines) < MaxDiffLines
    /\ \E l \in DiffLineKinds :
         diff_sections' =
            [diff_sections EXCEPT ![Len(diff_sections)].lines = Append(@, l)]
    /\ UNCHANGED <<non_ws_files, dpc>>
    /\ UNCHANGED <<cvars, rvars, tvars, avars, gvars, ovars, fvars, bvars>>

\* get_commit_non_whitespace_files / _get_pr_diff_non_whitespace_files when
\* the diff was obtained
ScanDiff ==
    /\ dpc = "diff"
    /\ diff_sections # <<>>
    /\ non_ws_files' = DiffNonWhitespaceFiles(RenderDiff(diff_sections))
    /\ dpc' = "done"
    /\ UNCHANGED diff_sections
    /\ UNCHANGED <<cvars, rvars, tvars, avars, gvars, ovars, fvars, bvars>>

\* the same when git show or gh pr diff fails: `return set()`
DiffUnavailable ==
    /\ dpc = "diff"
    /\ diff_sections # <<>>
    /\ non_ws_files' = {}
    /\ dpc' = "failed"
    /\ UNCHANGED diff_sections
    /\ UNCHANGED <<cvars, rvars, tvars, avars, gvars, ovars, fvars, bvars>>

IdleDiff == diff_sections = <<>> /\ non_ws_files = {} /\ dpc = "off"

IdleScan == IdleBlame /\ IdleDiff

IdleExtra == IdleAttribution /\ IdleReview /\ IdleRoster /\ IdleFallback /\ IdleScan

Init == InitCache /\ IdleRegistry /\ IdleTrailer /\ IdleExtra

Next ==
    \/ \E md \in Modes : StartProcess(md)
    \/ ClearCache
    \/ LoadCacheStep
    \/ CollectLineStats
    \/ CollectCommitStatsStep
    \/ CollectGithubStats
    \/ Finish
    \/ HandledError
    \/ FetchReadme
    \/ Signal
    \/ NewCommit
    \/ ServiceChange
    \/ ServiceOutage
    \/ DiskDamage

Spec == Init /\ [][Next]_vars

NextRegistry ==
    \/ DoRegister
    \/ DoRegisterWithAliases
    \/ DoGet
    \/ DoClearRegistry

SpecRegistry == Init /\ [][NextRegistry]_vars

\* the roster holds A with a@x.com
InitTrailer ==
    /\ InitCache
    /\ registry = RegisterWithAliases(EmptyRegistry, AuthorA).registry
    /\ regLog = NoRegLog
    /\ regOps = 0
    /\ IdleTrailer
    /\ IdleExtra

NextTrailer ==
    \/ CommitMessage
    \/ GetCoAuthorsStep

SpecTrailer == InitTrailer /\ [][NextTrailer]_vars

\* the requests next to the history: one that changes a.py, one that
\* changes t/a.py, both merged
AttributionRequests ==
    <<[author_username |-> <<"A", "L">>, state |-> "MERGED",
       files |-> <<[path |-> PathA, has_non_whitespace_changes |-> TRUE]>>,
       commits |-> <<[co_authors |-> <<>>]>>, reviews |-> <<>>],
      [author_username |-> <<"b", "o">>, state |-> "MERGED",
       files |-> <<[path |-> PathT, has_non_whitespace_changes |-> TRUE]>>,
       commits |-> <<[co_authors |-> <<>>]>>, reviews |-> <<>>]>>

RosterLoaded ==
    /\ registry = RosterRegistry
    /\ regLog = NoRegLog
    /\ regOps = 0

\* main() on a repository whose roster holds A, Bob and the ignored author
InitAttribution ==
    /\ InitCache
    /\ RosterLoaded
    /\ IdleTrailer
    /\ IdleScan
    /\ \E f \in Filters : include_patterns = f.include /\ exclude_patterns = f.exclude
    /\ commits = <<>>
    /\ alone_lines = NoLines
    /\ collab_lines = NoLines
    /\ file_commits = NoFileCommits
    /\ coauthors_cache = <<>>
    /\ alone_commits = NoCommits
    /\ collab_commits = NoCommits
    /\ apc = "repo"
    /\ araised = ""
    /\ pull_requests = AttributionRequests
    /\ github_stats = NoStats
    /\ gpc = "service"
    /\ IdleRoster
    /\ IdleFallback

NextAttribution ==
    \/ MakeCommit
    \/ LineStatsPass
    \/ CommitStatsPass
    \/ GithubStatsPass

SpecAttribution == InitAttribution /\ [][NextAttribution]_vars

InitReview ==
    /\ InitCache
    /\ RosterLoaded
    /\ IdleTrailer
    /\ IdleScan
    /\ \E f \in Filters : include_patterns = f.include /\ exclude_patterns = f.exclude
    /\ commits = <<>>
    /\ alone_lines = NoLines
    /\ collab_lines = NoLines
    /\ file_commits = NoFileCommits
    /\ coauthors_cache = <<>>
    /\ alone_commits = NoCommits
    /\ collab_commits = NoCommits
    /\ apc = "commits"
    /\ araised = ""
    /\ IdleRoster
    /\ IdleFallback
    /\ pull_requests = <<>>
    /\ github_stats = NoStats
    /\ gpc = "service"

NextReview ==
    \/ OpenRequest
    \/ GithubStatsPass

SpecReview == InitReview /\ [][NextReview]_vars

InitRoster ==
    /\ InitCache
    /\ registry = EmptyRosterRegistry
    /\ regLog = NoRegLog
    /\ regOps = 0
    /\ IdleTrailer
    /\ IdleScan
    /\ IdleAttribution
    /\ IdleReview
    /\ IdleFallback
    /\ roster = NoRoster
    /\ config = NoConfig(EmptyRosterRegistry)
    /\ opc = "edit"

NextRoster ==
    \/ AddStudentEntry
    \/ AddIgnoreEntry
    \/ LoadRoster

SpecRoster == InitRoster /\ [][NextRoster]_vars

InitFallback ==
    /\ InitCache
    /\ RosterLoaded
    /\ IdleTrailer
    /\ IdleScan
    /\ IdleAttribution
    /\ IdleReview
    /\ IdleRoster
    /\ commit_data = <<>>
    /\ gitOk = TRUE
    /\ ghViewOk = TRUE
    /\ pr_commits = <<>>
    /\ fpc = "service"
    /\ fraised = ""

NextFallback ==
    \/ LocalCommit
    \/ ServiceCommit
    \/ ServiceViewChange
    \/ BackendChange
    \/ GetPrCommitsStep

SpecFallback == InitFallback /\ [][NextFallback]_vars

InitBlame ==
    /\ InitCache
    /\ IdleRegistry
    /\ IdleTrailer
    /\ IdleAttribution
    /\ IdleReview
    /\ IdleRoster
    /\ IdleFallback
    /\ IdleDiff
    /\ blame_stderr = <<>>
    /\ blame_words = 0
    /\ blame_raised = ""
    /\ bpc = "git"

NextBlame ==
    \/ BackendWrites
    \/ BlameReturns
    \/ BlameFails

SpecBlame == InitBlame /\ [][NextBlame]_vars

InitDiff ==
    /\ InitCache
    /\ IdleRegistry
    /\ IdleTrailer
    /\ IdleAttribution
    /\ IdleReview
    /\ IdleRoster
    /\ IdleFallback
    /\ IdleBlame
    /\ diff_sections = <<>>
    /\ non_ws_files = {}
    /\ dpc = "diff"

NextDiff ==
    \/ DiffSection
    \/ DiffLine
    \/ ScanDiff
    \/ DiffUnavailable

SpecDiff == InitDiff /\ [][NextDiff]_vars

(***************************************************************************)
(* Process cache: properties                                               *)
(***************************************************************************)

\* C1: a command is executed successfully at most once per cache key: a
\* call whose key is in the cache (stored earlier in this process, or loaded
\* from the file a previous process flushed) executes nothing and returns
\* the stored text; a call that executes successfully stores what it
\* returns.  A command that fails is not stored.
C1_ExecutedOncePerKey ==
    /\ \A k \in Keys : execs[k] + (IF k \in loadedKeys THEN 1 ELSE 0) <= 1
    /\ \A c \in calls :
         /\ c.present => ~c.executed /\ c.ok /\ c.out = c.stored
         /\ (~c.present /\ c.ok) => c.executed /\ cache[c.key] = c.out

\* A later process takes a text from the flushed cache.
C1_Witness ==
    \E c \in calls : c.present /\ c.key \in loadedKeys /\ ~c.executed /\ runs = 2

\* C2 (as claimed): every key under which a commit-dependent result is
\* stored holds a full commit hash, never HEAD.
CommitDependent == {"rev-parse", "commit", "ls-tree", "blame", "show-diff"}
C2_KeysHoldFullHash ==
    \A k \in Keys :
        (cache[k] # Absent /\ k.cmd \in CommitDependent) => k.ref \in Hashes

\* C3: no record of an open request is in the closed-request cache (in
\* memory or in the file), and a request listed as open is fetched anew,
\* not taken from that cache.
C3_OpenNeverCached ==
    /\ \A n \in PRs : prCache[n].state # "OPEN" /\ disk.p[n].state # "OPEN"
    /\ \A n \in PRs :
         lastList.listed[n] = "OPEN" =>
            n \notin lastList.reused /\ (pc = "done" => n \in lastList.fetched)

\* A reopened request: its closed record is in the cache, and it was fetched.
C3_Witness ==
    \E n \in PRs :
        /\ prCache[n].state = "CLOSED"
        /\ lastList.listed[n] = "OPEN"
        /\ n \in lastList.fetched
        /\ lastList.got[n].state = "OPEN"

\* C4 (as claimed): a second run on an unchanged repository, from the cache
\* the first run flushed, has the same result and executes no command.
C4_SecondRunExecutesNothing ==
    (pc = "done" /\ fromBaseline) => (result = baseline.result /\ ran = {})

\* C4 (amended): the second run has the same result, stores nothing, and
\* the only commands it executes are commands that failed in the first run
\* and fail again.
C4_SecondRunRepeatsOnlyFailures ==
    (pc = "done" /\ fromBaseline) =>
        /\ result = baseline.result
        /\ ~dirty
        /\ \A k \in ran : execs[k] = 0 /\ k \in baseline.failed

C4_Witness ==
    /\ pc = "done"
    /\ fromBaseline
    /\ result.log # Absent
    /\ ran = {CommitKey(ForeignHash)}

\* C5: while a process runs with the dirty flag clear, every entry of the
\* two in-memory caches is in the file; and a flush made with the flag
\* clear does not write.
C5_CleanMeansSaved ==
    /\ (pc # "off" /\ ~dirty) =>
          /\ \A k \in Keys : cache[k] # Absent => disk.c[k] = cache[k]
          /\ \A n \in PRs : prCache[n] # NoPR => disk.p[n] = prCache[n]
    /\ \A i \in DOMAIN exitLog.flushes :
          ~exitLog.flushes[i].was => ~exitLog.flushes[i].wrote

\* A run that found everything in the cache ends with a flush that is skipped.
C5_Witness ==
    /\ pc = "off"
    /\ exitLog.how = "success"
    /\ ~exitLog.flushes[1].was
    /\ cache[LogFilesKey] # Absent
    /\ prCache # EmptyPRCache

\* C6: a process whose handlers are installed does not end without a call
\* of save_cache; if the flag was set at a call whose write succeeded, the
\* file holds every in-memory entry as the process ends.
C6_FlushOnEveryExit ==
    (pc = "off" /\ exitLog.handlers) =>
        /\ Len(exitLog.flushes) >= 1
        /\ (\E i \in DOMAIN exitLog.flushes :
               exitLog.flushes[i].was /\ exitLog.flushes[i].w = "ok")
             => exitLog.holdsAll

\* A signal: the handler's write fails, the atexit handler's succeeds.
C6_Witness ==
    /\ pc = "off"
    /\ exitLog.how = "signal"
    /\ Len(exitLog.flushes) = 2
    /\ exitLog.flushes[1].was /\ exitLog.flushes[1].w = "write_fails"
    /\ exitLog.flushes[2].w = "ok"
    /\ exitLog.holdsAll

\* C7 (as claimed): load_cache on an absent, unreadable or corrupt file
\* raises nothing and leaves both caches empty; a failed write raises
\* nothing and leaves the dirty flag set.
C7_PersistenceFailuresAbsorbed ==
    /\ loadLog.kind \in DamagedKinds \cup {"absent"} =>
          loadLog.raised = "" /\ loadLog.empty
    /\ \A i \in DOMAIN exitLog.flushes :
          (exitLog.flushes[i].was /\ exitLog.flushes[i].w # "ok") =>
              exitLog.flushes[i].raised = "" /\ exitLog.flushes[i].dirty

(***************************************************************************)
(* Identity registry: properties                                           *)
(***************************************************************************)

\* C8 (as claimed): after register_with_aliases(c), every pair of
\* ({name} + other_names) x ({email} + other_emails) looks up to the
\* instance the call returned.
C8_AllAliasesResolveToReturned ==
    regLog.op = "register_with_aliases" =>
        \A key \in AllKeys(regLog.arg) :
            LET g == AuthorGet(registry, key[1], key[2], "commit", "c1") IN
            g.raised = "" /\ g.author = regLog.ret

\* C8 (amended): after register_with_aliases(c), every such pair looks up
\* successfully; a pair that was not registered before the call looks up to
\* the instance the call returned, and a pair that was registered before
\* keeps the instance it had.
C8_FreshAliasesResolveToReturned ==
    regLog.op = "register_with_aliases" =>
        \A key \in AllKeys(regLog.arg) :
            LET g == AuthorGet(registry, key[1], key[2], "commit", "c1") IN
            /\ g.raised = ""
            /\ regLog.before[key] = NoAuthor => g.author = regLog.ret
            /\ regLog.before[key] # NoAuthor => g.author = regLog.before[key]

\* The four pairs of {A, Bob} x {a@x.com, b@y.com}, one of them taken before
\* by another contributor.
C8_Witness ==
    /\ regLog.op = "register_with_aliases"
    /\ Cardinality(AllKeys(regLog.arg)) = 4
    /\ regLog.ret = regLog.arg
    /\ \E k1 \in AllKeys(regLog.arg), k2 \in AllKeys(regLog.arg) :
         /\ regLog.before[k1] = NoAuthor /\ registry[k1] = regLog.ret
         /\ regLog.before[k2] # NoAuthor /\ registry[k2] # regLog.ret

\* C9: a register or register_with_aliases call changes no key that was
\* mapped before it, and register on a primary key that was mapped returns
\* the instance that was there.
C9_FirstWriterWins ==
    regLog.op \in {"register", "register_with_aliases"} =>
        /\ \A key \in RegKeys :
              regLog.before[key] # NoAuthor => registry[key] = regLog.before[key]
        /\ LET key == <<regLog.arg.name, regLog.arg.email>> IN
              regLog.before[key] # NoAuthor => regLog.ret = regLog.before[key]

\* register of a second object with a registered name and email
C9_Witness ==
    /\ regLog.op = "register"
    /\ regLog.before[<<regLog.arg.name, regLog.arg.email>>] # NoAuthor
    /\ regLog.ret # regLog.arg
    /\ regLog.ret.name = regLog.arg.name

(***************************************************************************)
(* Co-author trailers: properties                                          *)
(***************************************************************************)
TrailerKeywordBy == {"Co-authored-by", "CO-AUTHORED-BY"}
TrailerEmails == {<<"a", "@", "x.com">>, <<"<", "a", "@", "x.com", ">">>,
                  <<"<", "a", "@", "x.com">>}

\* 'Co-authored-by: A <a@x.com>', 'Co-authored-by: A a@x.com' and
\* 'co-authored A a@x.com', the keyword in either case, the email of the
\* last two with or without stray angle brackets
TrailerForA(line) ==
    \/ \E k \in TrailerKeywordBy :
          line = <<k, ":", " ", "A", " ", "<", "a", "@", "x.com", ">">>
    \/ \E k \in TrailerKeywordBy, em \in TrailerEmails :
          line = <<k, ":", " ", "A", " ">> \o em
    \/ \E em \in TrailerEmails :
          line = <<"co-authored", " ", "A", " ">> \o em

MatchesNoForm(line) ==
    LET stripped == Strip(line) IN
    /\ ~PrecisePattern(stripped).matched
    /\ ~NoBracketsPattern(stripped).matched
    /\ ~LoosePattern(stripped).matched

RECURSIVE ExpectedCoAuthors(_)
ExpectedCoAuthors(lines) ==
    IF lines = <<>> THEN <<>>
    ELSE (IF TrailerForA(Head(lines)) THEN <<registry[<<"A", "a@x.com">>]>> ELSE <<>>)
         \o ExpectedCoAuthors(Tail(lines))

\* C10: with A registered under a@x.com, a message whose lines are each a
\* trailer for A in one of the three forms or a line that matches none of
\* the three patterns yields, without error, the registered instance of A
\* once per trailer line and nothing for the other lines.
C10_TrailerFormsResolve ==
    (/\ parsed.done
     /\ \A i \in 1..Len(message_lines) :
           TrailerForA(message_lines[i]) \/ MatchesNoForm(message_lines[i]))
    => /\ parsed.raised = ""
       /\ parsed.co_authors = ExpectedCoAuthors(message_lines)
       /\ \A i \in 1..Len(parsed.co_authors) : parsed.co_authors[i] = AuthorA

\* a loose trailer with a stray bracket
C10_Witness ==
    /\ parsed.done
    /\ message_lines = << <<"co-authored", " ", "A", " ", "<", "a", "@", "x.com">> >>
    /\ parsed.co_authors = <<AuthorA>>

\* the pair a line names, when it matches a pattern with a name and an email
NamesPair(line) ==
    MatchLine(line).name # <<>> /\ MatchLine(line).email # <<>>
PairOf(line) ==
    <<Join(MatchLine(line).name), Join(StripAngle(MatchLine(line).email))>>
Unregistered(pair) == pair \notin RegKeys \/ registry[pair] = NoAuthor

\* C11: when a line of the message names a pair that is not registered,
\* get_co_authors raises UnknownAuthorError with context "co-author in
\* commit" and the first eight characters of the commit's hash, and returns
\* no list, whatever the other lines resolve to.
C11_AllOrNothing ==
    (/\ parsed.done
     /\ \E i \in 1..Len(message_lines) :
           NamesPair(message_lines[i]) /\ Unregistered(PairOf(message_lines[i])))
    => /\ parsed.raised = "UnknownAuthorError"
       /\ parsed.co_authors = <<>>
       /\ parsed.context_type = "co-author in commit"
       /\ parsed.context_detail = "6196d423"
       /\ \E i \in 1..Len(message_lines) :
             /\ NamesPair(message_lines[i])
             /\ PairOf(message_lines[i]) = <<parsed.name, parsed.email>>
             /\ Unregistered(PairOf(message_lines[i]))

\* a trailer of A that resolves, then a trailer of Bob, who is not registered
C11_Witness ==
    /\ parsed.done
    /\ Len(message_lines) = 2
    /\ PairOf(message_lines[1]) = <<"A", "a@x.com">>
    /\ PairOf(message_lines[2]) = <<"Bob", "a@x.com">>
    /\ NamesPair(message_lines[2])
    /\ parsed.raised = "UnknownAuthorError"
    /\ parsed.name = "Bob"

(***************************************************************************)
(* Attribution: properties.  What the passes should have produced is       *)
(* stated from the history itself.                                         *)
(***************************************************************************)
HeadTree == TreeAt(commits, Len(commits))
MatchesAny(path, patterns) == \E i \in 1..Len(patterns) : Fnmatch(path, patterns[i])
Included(path) ==
    MatchesAny(path, include_patterns) /\ ~MatchesAny(path, exclude_patterns)
Entries(bucket, s, path) == {bucket[s][path][i] : i \in 1..Len(bucket[s][path])}
HasText(content) == \E k \in 1..Len(content) : content[k] # " "
AuthorOf(hash) == <<CommitAt(commits, hash).name, CommitAt(commits, hash).email>>
TrailerKeys(hash) ==
    {key \in RegKeys :
        \E i \in 1..Len(CommitAt(commits, hash).message_lines) :
            CommitAt(commits, hash).message_lines[i] = TrailerLine(key)}
ValidCo(hash) == TrailerKeys(hash) \ IgnoredAuthors
HashesOf(history) == {history[i].hash : i \in 1..Len(history)}
LinesDone == apc \in {"lines", "commits", "commits_failed"}
CommitsDone == apc = "commits"

\* C12: after line attribution no contributor has lines of one commit of one
\* file both in the Alone and in the Collab bucket, and after commit
\* attribution no hash is in both commit sets of one contributor.
C12_AloneCollabExclusive ==
    /\ LinesDone =>
          \A s \in StudentKeys, path \in PathSet, hash \in HashesOf(commits) :
              ~(/\ \E e \in Entries(alone_lines, s, path) : e.commit = hash
                /\ \E e \in Entries(collab_lines, s, path) : e.commit = hash)
    /\ CommitsDone =>
          \A s \in StudentKeys : alone_commits[s] \cap collab_commits[s] = {}

\* A has, in a.py, a line written alone and a line written with Bob, and a
\* commit of each kind
C12_Witness ==
    /\ CommitsDone
    /\ alone_lines[<<"A", "a@x.com">>][PathA] # <<>>
    /\ collab_lines[<<"A", "a@x.com">>][PathA] # <<>>
    /\ alone_commits[<<"A", "a@x.com">>] # {}
    /\ collab_commits[<<"A", "a@x.com">>] # {}

\* the changes of a commit to the paths that pass the filters are all
\* whitespace-only: blank lines added, lines re-indented
WhitespaceOnly(c) ==
    \A i \in 1..Len(c.changes) :
        Included(c.changes[i].path) => c.changes[i].kind \in {"blank", "indent"}

\* C13: a commit whose changes to every touched path that passes the filters
\* are whitespace-only has no entry in any line bucket and is in no commit
\* set.
C13_WhitespaceOnlyContributesNothing ==
    \A n \in 1..Len(commits) :
        WhitespaceOnly(commits[n]) =>
            /\ LinesDone =>
                  \A s \in StudentKeys, path \in PathSet :
                      /\ \A e \in Entries(alone_lines, s, path) :
                            e.commit # commits[n].hash
                      /\ \A e \in Entries(collab_lines, s, path) :
                            e.commit # commits[n].hash
            /\ CommitsDone =>
                  \A s \in StudentKeys :
                      commits[n].hash \notin alone_commits[s] \cup collab_commits[s]

\* the requests of a student that have a changed file passing the filters
RequestsOn(s) ==
    {i \in 1..Len(pull_requests) :
        /\ UsernameToAuthor(LowerStr(pull_requests[i].author_username)) # NoAuthor
        /\ AuthorKey(UsernameToAuthor(LowerStr(pull_requests[i].author_username))) = s
        /\ \E j \in 1..Len(pull_requests[i].files) :
              Included(pull_requests[i].files[j].path)}
RequestsCounted(s) ==
    github_stats[s].prs_alone_merged + github_stats[s].prs_alone_open
    + github_stats[s].prs_collab_merged + github_stats[s].prs_collab_open

\* C14: a path that matches an include pattern and an exclude pattern has no
\* line in any bucket and no entry in the file-to-commits index; a commit in
\* a commit set touches a path that passes the filters; a request that is
\* counted has a changed file that passes the filters.
C14_ExcludeWins ==
    /\ LinesDone =>
          \A path \in PathSet :
              (MatchesAny(path, include_patterns) /\ MatchesAny(path, exclude_patterns))
              => /\ file_commits[path] = {}
                 /\ \A s \in StudentKeys :
                       alone_lines[s][path] = <<>> /\ collab_lines[s][path] = <<>>
    /\ CommitsDone =>
          \A s \in StudentKeys : \A hash \in alone_commits[s] \cup collab_commits[s] :
              \E i \in 1..Len(CommitAt(commits, hash).changes) :
                  Included(CommitAt(commits, hash).changes[i].path)
    /\ gpc = "done" =>
          \A s \in StudentKeys : RequestsCounted(s) <= Cardinality(RequestsOn(s))

\* t/a.py matches an include and an exclude pattern; a commit of Bob added
\* a line of text to it, Bob's request changed it, and all passes have run
C14_Witness ==
    /\ gpc = "done"
    /\ CommitsDone
    /\ MatchesAny(PathT, include_patterns) /\ MatchesAny(PathT, exclude_patterns)
    /\ \E i \in 1..Len(HeadTree[PathT]) :
          /\ HasText(HeadTree[PathT][i].content)
          /\ AuthorOf(HeadTree[PathT][i].hash) = <<"Bob", "b@y.com">>
    /\ \E i \in 1..Len(HeadTree[PathA]) : HasText(HeadTree[PathA][i].content)
    /\ RequestsCounted(<<"A", "a@x.com">>) = 1

\* a blame line that line attribution counts
LineCounts(path, i) ==
    /\ Included(path)
    /\ HasText(HeadTree[path][i].content)
    /\ AuthorOf(HeadTree[path][i].hash) \notin IgnoredAuthors
BlameEntry(path, i) ==
    [content |-> HeadTree[path][i].content, commit |-> HeadTree[path][i].hash,
     line |-> i]

\* C15: a counted line of a commit with a co-author that is not ignored is
\* in the Collab bucket of the author and of every such co-author, under the
\* path of the file, and in nobody's Alone bucket; a counted line of any
\* other commit is in the author's Alone bucket only; the buckets hold
\* nothing else.
C15_LineAttribution ==
    LinesDone =>
        \A s \in StudentKeys, path \in PathSet :
            /\ \A i \in 1..Len(HeadTree[path]) :
                  /\ BlameEntry(path, i) \in Entries(collab_lines, s, path)
                     <=> /\ LineCounts(path, i)
                         /\ ValidCo(HeadTree[path][i].hash) # {}
                         /\ s \in {AuthorOf(HeadTree[path][i].hash)} \cup
                                  ValidCo(HeadTree[path][i].hash)
                  /\ BlameEntry(path, i) \in Entries(alone_lines, s, path)
                     <=> /\ LineCounts(path, i)
                         /\ ValidCo(HeadTree[path][i].hash) = {}
                         /\ s = AuthorOf(HeadTree[path][i].hash)
            /\ Entries(collab_lines, s, path) \cup Entries(alone_lines, s, path)
               \subseteq {BlameEntry(path, i) : i \in 1..Len(HeadTree[path])}

\* a.py holds a line A wrote with Bob, in the Collab bucket of both, and a
\* line Bob wrote with the ignored author only, in Bob's Alone bucket
C15_Witness ==
    /\ apc = "lines"
    /\ \E i, j \in 1..Len(HeadTree[PathA]) :
          /\ AuthorOf(HeadTree[PathA][i].hash) = <<"A", "a@x.com">>
          /\ ValidCo(HeadTree[PathA][i].hash) = {<<"Bob", "b@y.com">>}
          /\ BlameEntry(PathA, i) \in Entries(collab_lines, <<"A", "a@x.com">>, PathA)
          /\ BlameEntry(PathA, i) \in Entries(collab_lines, <<"Bob", "b@y.com">>, PathA)
          /\ AuthorOf(HeadTree[PathA][j].hash) = <<"Bob", "b@y.com">>
          /\ TrailerKeys(HeadTree[PathA][j].hash) = IgnoredAuthors
          /\ BlameEntry(PathA, j) \in Entries(alone_lines, <<"Bob", "b@y.com">>, PathA)

\* a commit whose author or whose trailer names a pair that is not registered
Offending(hash) ==
    \/ registry[AuthorOf(hash)] = NoAuthor
    \/ \E key \in TrailerKeys(hash) : registry[key] = NoAuthor
\* a commit that commit attribution counts
CommitCounts(hash) ==
    /\ \E i \in 1..Len(CommitAt(commits, hash).changes) :
          /\ Included(CommitAt(commits, hash).changes[i].path)
          /\ CommitAt(commits, hash).changes[i].path \in
                NonWhitespaceFiles(commits, hash)
    /\ ~Offending(hash)
    /\ AuthorOf(hash) \notin IgnoredAuthors

\* C19: commit attribution never ends with an exception of one commit: a
\* commit whose author or co-author trailer is not registered is skipped,
\* and every other commit is attributed as if the skipped one were not there.
C19_OffendingCommitSkipped ==
    /\ apc # "commits_failed"
    /\ CommitsDone =>
          \A s \in StudentKeys, hash \in HashesOf(commits) :
              /\ hash \in collab_commits[s]
                 <=> /\ CommitCounts(hash)
                     /\ ValidCo(hash) # {}
                     /\ s \in {AuthorOf(hash)} \cup ValidCo(hash)
              /\ hash \in alone_commits[s]
                 <=> /\ CommitCounts(hash)
                     /\ ValidCo(hash) = {}
                     /\ s = AuthorOf(hash)

(***************************************************************************)
(* Review attribution: properties                                          *)
(***************************************************************************)
Requests == 1..Len(pull_requests)
\* a request the rule counts: not of a bot, merged or open, with a changed
\* file that passes the filters and has a non-whitespace change
RequestQualifies(pr) ==
    /\ ~(Len(pr.author_username) >= 4
         /\ SubSeq(pr.author_username, 1, 4) = <<"a", "p", "p", "/">>)
    /\ pr.state \in {"MERGED", "OPEN"}
    /\ \E j \in 1..Len(pr.files) :
          Included(pr.files[j].path) /\ pr.files[j].has_non_whitespace_changes
ResolvesTo(username, s) ==
    /\ UsernameToAuthor(LowerStr(username)) # NoAuthor
    /\ AuthorKey(UsernameToAuthor(LowerStr(username))) = s
\* the counter the rule names for a request
RequestCounter(pr) ==
    IF \E j \in 1..Len(pr.commits) : Len(pr.commits[j].co_authors) >= 1
    THEN IF pr.state = "MERGED" THEN "prs_collab_merged" ELSE "prs_collab_open"
    ELSE IF pr.state = "MERGED" THEN "prs_alone_merged" ELSE "prs_alone_open"
AuthorCounters ==
    {"prs_alone_merged", "prs_alone_open", "prs_collab_merged", "prs_collab_open"}

\* C16: each of the four counters of an author is the number of requests of
\* that author that are not of a bot, are merged or open, have a changed
\* file that passes the filters with a non-whitespace change, and fall in
\* the counter's class (Collab when a commit carries a co-author handle,
\* merged or open by state); no other request changes a counter.
C16_RequestCounters ==
    gpc = "done" =>
        \A s \in StudentKeys, counter \in AuthorCounters :
            github_stats[s][counter] =
                Cardinality({i \in Requests :
                    /\ RequestQualifies(pull_requests[i])
                    /\ ResolvesTo(pull_requests[i].author_username, s)
                    /\ RequestCounter(pull_requests[i]) = counter})

\* a merged request of A with a co-authored commit is counted once; a merged
\* request of A that changes only a file the filters reject is not counted
C16_Witness ==
    /\ gpc = "done"
    /\ Len(pull_requests) = 2
    /\ \A i \in Requests :
          /\ pull_requests[i].author_username = <<"A", "L">>
          /\ pull_requests[i].state = "MERGED"
          /\ Len(pull_requests[i].commits) = 2
    /\ pull_requests[1].files[1].path = PathA
    /\ pull_requests[1].files[1].has_non_whitespace_changes
    /\ pull_requests[2].files[1].path = PathT
    /\ ~Included(PathT)
    /\ github_stats[<<"A", "a@x.com">>].prs_collab_merged = 1
    /\ github_stats[<<"A", "a@x.com">>].prs_alone_merged = 0

ReviewedWith(pr, s, disposition) ==
    \E j \in 1..Len(pr.reviews) :
        /\ ResolvesTo(pr.reviews[j].reviewer_username, s)
        /\ pr.reviews[j].state = disposition

\* C17: the approvals-given counter of a reviewer is the number of counted
\* requests the reviewer approved at least once, and the change-requests
\* counter the number of counted requests on which the reviewer requested
\* changes at least once: one per request however many reviews, added up
\* over the requests.
C17_OncePerReviewerPerRequest ==
    gpc = "done" =>
        \A s \in StudentKeys :
            /\ github_stats[s].approvals_given =
                  Cardinality({i \in Requests :
                      /\ RequestQualifies(pull_requests[i])
                      /\ ReviewedWith(pull_requests[i], s, "APPROVED")})
            /\ github_stats[s].change_requests_given =
                  Cardinality({i \in Requests :
                      /\ RequestQualifies(pull_requests[i])
                      /\ ReviewedWith(pull_requests[i], s, "CHANGES_REQUESTED")})

\* Bob approved twice on each of two counted requests and A requested
\* changes twice on each
C17_Witness ==
    /\ gpc = "done"
    /\ Len(pull_requests) = 2
    /\ \A i \in Requests : RequestQualifies(pull_requests[i])
    /\ Len(pull_requests[1].reviews) = 3
    /\ pull_requests[1].reviews[1].state = "APPROVED"
    /\ pull_requests[1].reviews[2].state = "APPROVED"
    /\ Len(pull_requests[2].reviews) = 4
    /\ pull_requests[2].reviews[1].state = "CHANGES_REQUESTED"
    /\ github_stats[<<"Bob", "b@y.com">>].approvals_given = 1
    /\ github_stats[<<"Bob", "b@y.com">>].change_requests_given = 1
    /\ github_stats[<<"A", "a@x.com">>].change_requests_given = 1

(***************************************************************************)
(* Roster loading: properties                                              *)
(***************************************************************************)
NotGiven(v) == v = Missing \/ v = ""
BadStudent(e) ==
    NotGiven(e.id) \/ NotGiven(e.name) \/ NotGiven(e.email) \/ NotGiven(e.github_username)
BadIgnore(e) == NotGiven(e.name) \/ e.email = Missing
BadStudents == {i \in 1..Len(roster.students) : BadStudent(roster.students[i])}
BadIgnores == {i \in 1..Len(roster.ignore) : BadIgnore(roster.ignore[i])}

\* C18: loading a roster with a student entry in which id, name, email or
\* github_username is missing or empty, or an ignore entry in which name is
\* missing or empty or email is absent, fails with a configuration error
\* that names the index of such an entry and one of its failing fields; a
\* roster is returned only when every entry passes.
C18_RosterValidated ==
    opc = "loaded" =>
        /\ (BadStudents # {} \/ BadIgnores # {}) =>
              /\ config.raised = "StudentsConfigError"
              /\ ~config.returned
              /\ \/ /\ config.list = "Student"
                    /\ config.index + 1 \in BadStudents
                    /\ NotGiven(roster.students[config.index + 1][config.field])
                 \/ /\ config.list = "Ignore"
                    /\ config.index + 1 \in BadIgnores
                    /\ config.field \in {"name", "email"}
        /\ config.returned => (BadStudents = {} /\ BadIgnores = {})

(***************************************************************************)
(* The commits of a review request: properties                             *)
(***************************************************************************)
\* the entries of the answer that carry an oid
WithOid == SelectSeq(commit_data, LAMBDA d : d.oid # <<>>)
\* the local lookup of an oid fails: the backend fails, the repository does
\* not hold the object, or its author or a co-author is not registered
LocalFails(oid) ==
    \/ ~gitOk
    \/ oid \notin HashesOf(commits)
    \/ Offending(oid)

\* C20: fetching the commits of a request never ends with an exception of
\* a local lookup: every commit whose local lookup fails is recorded from
\* the service's record, the first listed author as author and the other
\* logins as co-author handles.
C20_LocalFailureFallsBack ==
    fpc = "done" =>
        /\ fraised = ""
        /\ ghViewOk =>
              /\ Len(pr_commits) = Len(WithOid)
              /\ \A k \in 1..Len(WithOid) :
                    LocalFails(WithOid[k].oid) =>
                        /\ pr_commits[k].source = "service"
                        /\ pr_commits[k].hash = WithOid[k].oid
                        /\ pr_commits[k].author_username =
                              (IF WithOid[k].authors = <<>> THEN <<>>
                               ELSE WithOid[k].authors[1].login)
                        /\ pr_commits[k].co_authors =
                              (IF WithOid[k].authors = <<>> THEN <<>>
                               ELSE SelectSeq([j \in 1..(Len(WithOid[k].authors) - 1) |->
                                                  WithOid[k].authors[j + 1].login],
                                              LAMBDA l : l # <<>>))

(***************************************************************************)
(* The closed-request cache and the persistent cache across runs:          *)
(* properties                                                              *)
(***************************************************************************)
\* the requests the last get_pull_requests returned a record for
Returned == {n \in PRs : lastList.got[n] # NoPR}

\* C28: every record get_pull_requests returns carries the state the
\* service listed for that request in the same call, whatever the request
\* went through between the calls and whatever _pr_cache held.
C28_ReturnedStateIsListed ==
    \A n \in Returned : lastList.got[n].state = lastList.listed[n]

\* a record whose commit list could not be fetched
Degraded(pr) == pr # NoPR /\ pr.commits = "none"

\* C29: a record fetched while the service did not answer is never stored
\* in _pr_cache, so a call made while the service answers never returns a
\* record without its commits.
C29_DegradedNeverCached ==
    /\ \A n \in PRs : ~Degraded(prCache[n])
    /\ (pc = "done" /\ mode = "github" /\ ghOk) =>
          \A n \in Returned : ~Degraded(lastList.got[n])

\* C30: a run that reaches the report read the listing at the current
\* HEAD, blamed at the commit HEAD now resolves to, and read a history that
\* reaches the current HEAD, also when it started from the file an earlier
\* run wrote before HEAD moved.
C30_HistoryNeverStale ==
    (pc = "done" /\ mode # "readme") =>
        /\ result.blameAt = head
        /\ result.tree = head
        /\ result.log = head

(***************************************************************************)
(* Review counting on requests that are not counted: properties            *)
(***************************************************************************)
\* C24: the review counters do not depend on whether the request is
\* counted for its author: the approvals-given counter of a reviewer is the
\* number of requests returned by the service, of a bot, without a matching
\* changed file or closed without merging included, that the reviewer
\* approved at least once, and likewise for the change-requests counter.
C24_ReviewsCountedOnEveryRequest ==
    gpc = "done" =>
        \A s \in StudentKeys :
            /\ github_stats[s].approvals_given =
                  Cardinality({i \in Requests :
                      ReviewedWith(pull_requests[i], s, "APPROVED")})
            /\ github_stats[s].change_requests_given =
                  Cardinality({i \in Requests :
                      ReviewedWith(pull_requests[i], s, "CHANGES_REQUESTED")})

(***************************************************************************)
(* Collab requests and ignored co-authors: properties                      *)
(***************************************************************************)
\* the commits of the request that were recorded from the local repository
LocalRecords == {k \in 1..Len(pr_commits) : pr_commits[k].source = "local"}

\* C25: a request all of whose commits were read from the local repository
\* is Collab only if the trailers of one of them name a co-author who is not
\* ignored, which is when commit attribution puts that commit in a Collab
\* set; co-authors that are all ignored leave the request Alone.
C25_CollabNeedsValidCoAuthor ==
    (fpc = "done" /\ fraised = "" /\ LocalRecords = 1..Len(pr_commits)) =>
        (PrIsCollab([commits |-> pr_commits])
            => \E k \in LocalRecords : ValidCo(pr_commits[k].hash) # {})

(***************************************************************************)
(* Commits of an ignored author with a valid co-author: properties         *)
(***************************************************************************)
\* the students among the co-authors of a commit that are not ignored
ValidStudents(hash) == ValidCo(hash) \cap StudentKeys

\* C23: when the author of a commit is ignored and a co-author is a student
\* who is not, every line of text blamed on the commit in a file that passes
\* the filters is in that co-author's Collab bucket, and the commit, if it
\* has a non-whitespace change to such a file, is in that co-author's Collab
\* commits.
C23_IgnoredAuthorCoAuthorCredited ==
    \A hash \in HashesOf(commits) :
        AuthorOf(hash) \in IgnoredAuthors =>
            \A s \in ValidStudents(hash) :
                /\ LinesDone =>
                      \A path \in PathSet : \A i \in 1..Len(HeadTree[path]) :
                          (/\ Included(path)
                           /\ HasText(HeadTree[path][i].content)
                           /\ HeadTree[path][i].hash = hash)
                          => BlameEntry(path, i) \in Entries(collab_lines, s, path)
                /\ CommitsDone =>
                      ((/\ ~Offending(hash)
                        /\ \E i \in 1..Len(CommitAt(commits, hash).changes) :
                              /\ Included(CommitAt(commits, hash).changes[i].path)
                              /\ CommitAt(commits, hash).changes[i].path \in
                                    NonWhitespaceFiles(commits, hash))
                       => hash \in collab_commits[s])

(***************************************************************************)
(* How often a line is credited: properties                                *)
(***************************************************************************)
\* how many times a bucket holds an entry
Times(bucket, s, path, entry) ==
    Cardinality({k \in 1..Len(bucket[s][path]) : bucket[s][path][k] = entry})
\* the include patterns a path matches
PatternsMatching(path) ==
    {k \in 1..Len(include_patterns) : Fnmatch(path, include_patterns[k])}
\* the lines of text of a file at HEAD
TextLines(path) == {i \in 1..Len(HeadTree[path]) : HasText(HeadTree[path][i].content)}
\* no commit names its own author in a trailer
NoSelfTrailer == \A hash \in HashesOf(commits) : AuthorOf(hash) \notin TrailerKeys(hash)

\* C26: line attribution reads each file once however many include
\* patterns its path matches: in a history where no commit names a
\* contributor twice, no bucket holds a blame line more than once, and the
\* lines a contributor has for a file are at most the lines of text of that
\* file.
C26_FileCountedOnce ==
    (LinesDone /\ NoSelfTrailer) =>
        \A s \in StudentKeys, path \in PathSet :
            /\ \A i \in 1..Len(HeadTree[path]) :
                  /\ Times(alone_lines, s, path, BlameEntry(path, i)) <= 1
                  /\ Times(collab_lines, s, path, BlameEntry(path, i)) <= 1
            /\ Len(alone_lines[s][path]) + Len(collab_lines[s][path])
               <= Cardinality(TextLines(path))

\* C27: a blame line is in the Collab bucket of a contributor at most once,
\* also when the trailer of its commit names the commit's own author; stated
\* for the files whose path matches one include pattern.
C27_LineCreditedOnce ==
    LinesDone =>
        \A s \in StudentKeys, path \in PathSet :
            Cardinality(PatternsMatching(path)) = 1 =>
                \A i \in 1..Len(HeadTree[path]) :
                    Times(collab_lines, s, path, BlameEntry(path, i)) <= 1

(***************************************************************************)
(* A failing blame: properties                                             *)
(***************************************************************************)
\* the message says that the path does not exist: git's "no such path
\* <path> in <commit>", in any case
PathMissing(msg) ==
    \E i \in 1..Len(msg) :
        /\ i + Len(NoSuchPathText) - 1 <= Len(msg)
        /\ \A k \in 1..Len(NoSuchPathText) :
              LowerChar(msg[i + k - 1]) = NoSuchPathText[k]

\* C21: a failing blame leaves TrackedFile.get as "file not found in repo"
\* when the message of git says that the path does not exist, and as the
\* backend's own failure for every other message.
C21_OnlyMissingPathTranslated ==
    bpc = "raised" =>
        blame_raised = (IF PathMissing(blame_stderr)
                        THEN "FileNotFoundInRepoError"
                        ELSE "CalledProcessError")

(***************************************************************************)
(* The scan of a unified diff: properties                                  *)
(***************************************************************************)
\* the section holds an added or removed line whose text is not all
\* whitespace
RealChange(sec) ==
    \E i \in 1..Len(sec.lines) :
        /\ sec.lines[i].sign \in {"+", "-"}
        /\ \E k \in 1..Len(sec.lines[i].text) : sec.lines[i].text[k] # " "

\* C22: the scan returns exactly the paths of the files whose section holds
\* an added or removed line with text that is not all whitespace; the two
\* file markers of a section are not content, every other line that begins
\* with + or - is, and a line counts for the file of the header above it.
C22_ExactlyChangedFiles ==
    dpc = "done" =>
        non_ws_files = {diff_sections[n].path :
                            n \in {m \in 1..Len(diff_sections) :
                                      RealChange(diff_sections[m])}}

====
